---- MODULE Spec2Model ----
(***************************************************************************)
(* Ingestion, deletion, query and progress reporting of one Document of    *)
(* the book summarizer backend.                                            *)
(*                                                                         *)
(* The model follows a single Document (its row, its stored object, its    *)
(* vector collection doc_<id>, the Celery task records of its runs)        *)
(* through upload_document, process_pdf_task, delete_document,             *)
(* query_document and get_document_processing_status.  Documents share no  *)
(* state: rows are keyed by id, objects by their own key, collections by   *)
(* doc_<id>.                                                               *)
(*                                                                         *)
(* Every handler is cut into steps at its calls to the outside (database,  *)
(* object store, vector store, result backend); steps of different         *)
(* handlers interleave freely, as the API server and the Celery worker are *)
(* separate processes.  The relational store is reliable: a commit raises  *)
(* only when the row it updates has been deleted.  The object store, the   *)
(* vector store, the models and the result backend may fail at any call.   *)
(***************************************************************************)
EXTENDS Integers, Sequences, FiniteSets, TLC

\* Largest number of RAG chunks the uploaded text splits into: more than
\* the INITIAL_CHROMA_RESULTS candidates a query asks the vector store for.
MaxChunks == 11
\* Runs of process_pdf_task that can be dispatched for the Document.
MaxRuns == 2
\* Progress updates of one run that may be lost or raise.
MaxUpdateFaults == 1

\* The Document's id (documents.id, an autoincrement key).
DocId == 1

VARIABLES
    upload,      \* position of upload_document
    file,        \* what was uploaded: [kind, chunks]
    object,      \* TRUE while the stored object exists in the bucket
    row,         \* the documents row: [exists, status, summary, task]
    coll,        \* collection doc_<id>: [exists, items]
    run,         \* run[r]: local state of the r-th run of process_pdf_task
    meta,        \* meta[r]: the result-backend record of run r's task
    del,         \* position of delete_document
    query,       \* position of query_document
    poll,        \* position of get_document_processing_status
    statusResp,  \* last body returned by get_document_processing_status
    q,           \* locals and response of the query_document request in flight
    gs,          \* the call of LLMService.generate_summary under study
    svc,         \* the latest call of a service method, with what it returned
    chroma,      \* the vector store's collections by name: name -> [exists, items]
    caller       \* per endpoint: current_user of its latest request and whether
                 \* the request got past the lookup of the Document

vars == <<upload, file, object, row, coll, run, meta, del, query, poll, statusResp, q, gs,
          svc, chroma, caller>>

Runs == 1..MaxRuns

-----------------------------------------------------------------------------
(* DocumentStatus and the row *)

PENDING == "pending"
PROCESSING == "processing"
COMPLETED == "completed"
FAILED == "failed"

\* users.id of the user who uploads the Document, and of another user.
UploaderId == 1
OtherUserId == 2
UserIds == {UploaderId, OtherUserId}

NoRow == [exists |-> FALSE, status |-> "none", summary |-> FALSE, task |-> FALSE,
          owner |-> 0]

\* crud.create_document: a new row, status PENDING, no summary, no task id.
NewRow == [exists |-> TRUE, status |-> PENDING, summary |-> FALSE, task |-> FALSE,
           owner |-> UploaderId]

\* Mutant of Accessible: the owner is not looked at.
AccessibleAny(rw, user) == rw.exists

\* not (not document or document.owner_id != current_user.id)
Accessible(rw, user) == rw.exists /\ rw.owner = user

\* Before any request: the endpoints have served nobody.
NoCaller == [user |-> 0, outcome |-> "none"]
NoCallers == [query |-> NoCaller, del |-> NoCaller, poll |-> NoCaller]

\* The caller of a request and what the lookup answered him.
Caller(rw, user) ==
    [user |-> user, outcome |-> IF Accessible(rw, user) THEN "found" ELSE "not_found"]

-----------------------------------------------------------------------------
(* The uploaded file *)

NoFile == [kind |-> "none", chunks |-> 0]

\* The chunk counts of the uploaded texts: a short text of one chunk and a
\* long one of MaxChunks chunks.  A run treats every count above zero alike;
\* a query treats counts up to TOP_N_RERANKED_RESULTS and counts above
\* INITIAL_CHROMA_RESULTS differently.
ChunkCounts == {1, MaxChunks}

\* A file named *.pdf holds bytes fitz cannot open (no PDF at all, or a
\* damaged one: "corrupt"), a PDF whose pages hold only whitespace, or a PDF
\* whose text splits into chunks.
PdfFiles ==
    {[kind |-> "corrupt", chunks |-> 0], [kind |-> "blank", chunks |-> 0]}
    \cup {[kind |-> "text", chunks |-> n] : n \in ChunkCounts}

-----------------------------------------------------------------------------
(* The vector collection doc_<id> *)

NoCollection == [exists |-> FALSE, items |-> {}]

\* The ten digit characters.
Digits == <<"0", "1", "2", "3", "4", "5", "6", "7", "8", "9">>

\* str(n) of a natural number, as the sequence of its decimal digits.
RECURSIVE Str(_)
Str(n) == IF n < 10 THEN <<Digits[n + 1]>> ELSE Str(n \div 10) \o <<Digits[(n % 10) + 1]>>

\* Mutant of collection_name: the document id is left out of the name.
collection_name_shared(d) == <<"d", "o", "c", "_">>

\* f"doc_{document.id}", the collection of Document d, character by character.
collection_name(d) == <<"d", "o", "c", "_">> \o Str(d)

\* f"doc_{document_id}_chunk_{i}"
ChunkId(d, i) ==
    <<"d", "o", "c", "_">> \o Str(d) \o <<"_", "c", "h", "u", "n", "k", "_">> \o Str(i)

\* What the run hands to add_chunks_to_collection: ids, texts, embeddings and
\* metadatas, each a sequence (chunk texts are named by their position).
ChunkIds(d, n) == [i \in 1..n |-> ChunkId(d, i - 1)]
ChunkTexts(n) == [i \in 1..n |-> i - 1]
Metadatas(d, n) == [i \in 1..n |-> d]
Embeddings(n) == [i \in 1..n |-> "vec"]

\* One stored item of a collection.
Item(id, text, emb, md) == [id |-> id, text |-> text, embedding |-> emb, document_id |-> md]

\* The complete chunk set of a run over a text of n chunks.
FullChunkSet(d, n) ==
    {Item(ChunkId(d, i), i, "vec", d) : i \in 0..(n - 1)}

\* Mutant of AddChunks: on a length mismatch the items all three lists cover
\* are written.
AddChunksPartial(c, ids, texts, embeddings, metadatas, engineOk) ==
    IF ~c.exists \/ ~engineOk THEN c
    ELSE [c EXCEPT !.items = @ \cup
            {Item(ids[i], texts[i], embeddings[i], metadatas[i]) :
                i \in (1..Len(ids)) \cap (1..Len(texts)) \cap (1..Len(embeddings))}]

\* VectorDBService.add_chunks_to_collection on collection content c: the call
\* is dropped on a length mismatch, and an exception of collection.add
\* (engineOk = FALSE, or the collection no longer exists) is logged and
\* swallowed; otherwise every item is written by the one collection.add call.
AddChunks(c, ids, texts, embeddings, metadatas, engineOk) ==
    IF Len(ids) # Len(texts) THEN c
    ELSE IF Len(texts) # Len(embeddings) THEN c
    ELSE IF ~c.exists \/ ~engineOk THEN c
    ELSE [c EXCEPT !.items = @ \cup
            {Item(ids[i], texts[i], embeddings[i], metadatas[i]) : i \in 1..Len(texts)}]

\* Whether that call wrote its items (the caller is never told).
AddWritten(c, ids, texts, embeddings, engineOk) ==
    /\ Len(ids) = Len(texts)
    /\ Len(texts) = Len(embeddings)
    /\ c.exists
    /\ engineOk

-----------------------------------------------------------------------------
(* The result-backend record of a task *)

\* No record yet: AsyncResult reports PENDING with info None.
NoMeta == [state |-> "PENDING", isDict |-> FALSE, keys |-> {},
           stage |-> "", current_progress |-> 0]

\* task_track_started: the worker records STARTED with {pid, hostname}.
StartedMeta == [state |-> "STARTED", isDict |-> TRUE, keys |-> {"pid", "hostname"},
                stage |-> "", current_progress |-> 0]

\* update_processing_progress(stage, current_progress)
ProgressMeta(p) == [state |-> "PROGRESS", isDict |-> TRUE,
                    keys |-> {"stage", "current_progress"},
                    stage |-> p.stage, current_progress |-> p.current_progress]

\* self.update_state(state='FAILED', meta={'exc': ..., 'current_progress': 0})
FailedMeta == [state |-> "FAILED", isDict |-> TRUE, keys |-> {"exc", "current_progress"},
               stage |-> "", current_progress |-> 0]

\* What Celery records when the task function returns (result None) or lets
\* an exception out (result: the exception); neither is a dict.
ReturnMeta(escaped) == [state |-> IF escaped THEN "FAILURE" ELSE "SUCCESS",
                        isDict |-> FALSE, keys |-> {},
                        stage |-> "", current_progress |-> 0]

\* progress_meta.get('stage', 'Unknown')
MetaStage(m) == IF m.isDict /\ "stage" \in m.keys THEN m.stage ELSE "Unknown"

\* progress_meta.get('current_progress', 0)
MetaProgress(m) ==
    IF m.isDict /\ "current_progress" \in m.keys THEN m.current_progress ELSE 0

-----------------------------------------------------------------------------
(* process_pdf_task: its steps in program order *)

\* The statements of the try block, in order: progress updates (p_...) and
\* the calls that do the work of a stage.
TryBlock == <<
    "p_download", "download", "p_download_done",
    "p_extract", "extract", "p_extract_done",
    "p_summary", "summarize", "p_summary_done",
    "p_chunk", "chunk", "p_chunk_done",
    "p_embed", "embed", "p_embed_done",
    "p_store", "get_collection", "add_chunks", "p_store_done",
    "complete", "p_completed" >>

\* The stages of a run, in the order the spec names them.
Stages == <<"download", "extract", "summarize", "chunk", "embed", "store", "complete">>

\* The stage a working step belongs to.
StageOf(pc) == IF pc \in {"get_collection", "add_chunks"} THEN "store" ELSE pc

IndexOf(seq, x) == CHOOSE i \in 1..Len(seq) : seq[i] = x

InTry(pc) == \E i \in 1..Len(TryBlock) : TryBlock[i] = pc

\* Mutant of NextPc: the chunk stage is followed by the store stage.
NextPcSkipEmbed(pc) ==
    IF pc = "p_init" THEN TryBlock[1]
    ELSE IF pc = "p_chunk_done" THEN "p_store"
    ELSE IF IndexOf(TryBlock, pc) = Len(TryBlock) THEN "cleanup"
    ELSE TryBlock[IndexOf(TryBlock, pc) + 1]

\* The statement that follows pc when pc raises nothing: the try block is
\* entered after the "Initializing" update and left into the finally clause.
NextPc(pc) ==
    IF pc = "p_init" THEN TryBlock[1]
    ELSE IF IndexOf(TryBlock, pc) = Len(TryBlock) THEN "cleanup"
    ELSE TryBlock[IndexOf(TryBlock, pc) + 1]

\* Mutant of OnRaise: an exception inside the try block is swallowed and the
\* run goes on with the next statement.
OnRaiseSwallow(pc) == IF InTry(pc) THEN NextPc(pc) ELSE "return"

\* Where an exception raised by statement pc lands: in the except clause for
\* a statement of the try block, out of the task function otherwise.
OnRaise(pc) == IF InTry(pc) THEN "set_failed" ELSE "return"

\* Mutant of ProgressAt: "Generating summary" reports 54 for 45.
ProgressAtTypo(pc) ==
    CASE pc = "p_init"          -> [stage |-> "Initializing", current_progress |-> 5]
      [] pc = "p_download"      -> [stage |-> "Downloading from S3", current_progress |-> 10]
      [] pc = "p_download_done" -> [stage |-> "Download complete", current_progress |-> 20]
      [] pc = "p_extract"       -> [stage |-> "Extracting text", current_progress |-> 30]
      [] pc = "p_extract_done"  -> [stage |-> "Text extraction complete", current_progress |-> 40]
      [] pc = "p_summary"       -> [stage |-> "Generating summary", current_progress |-> 54]
      [] pc = "p_summary_done"  -> [stage |-> "Summary generation complete", current_progress |-> 48]
      [] pc = "p_chunk"         -> [stage |-> "Chunking text for RAG", current_progress |-> 50]
      [] pc = "p_chunk_done"    -> [stage |-> "Text chunking for RAG complete", current_progress |-> 60]
      [] pc = "p_embed"         -> [stage |-> "Generating embeddings", current_progress |-> 70]
      [] pc = "p_embed_done"    -> [stage |-> "Embeddings generated", current_progress |-> 80]
      [] pc = "p_store"         -> [stage |-> "Storing in vector DB", current_progress |-> 90]
      [] pc = "p_store_done"    -> [stage |-> "Vector DB storage complete", current_progress |-> 95]
      [] pc = "p_completed"     -> [stage |-> "Processing completed", current_progress |-> 100]

\* The arguments of each update_processing_progress call.
ProgressAt(pc) ==
    CASE pc = "p_init"          -> [stage |-> "Initializing", current_progress |-> 5]
      [] pc = "p_download"      -> [stage |-> "Downloading from S3", current_progress |-> 10]
      [] pc = "p_download_done" -> [stage |-> "Download complete", current_progress |-> 20]
      [] pc = "p_extract"       -> [stage |-> "Extracting text", current_progress |-> 30]
      [] pc = "p_extract_done"  -> [stage |-> "Text extraction complete", current_progress |-> 40]
      [] pc = "p_summary"       -> [stage |-> "Generating summary", current_progress |-> 45]
      [] pc = "p_summary_done"  -> [stage |-> "Summary generation complete", current_progress |-> 48]
      [] pc = "p_chunk"         -> [stage |-> "Chunking text for RAG", current_progress |-> 50]
      [] pc = "p_chunk_done"    -> [stage |-> "Text chunking for RAG complete", current_progress |-> 60]
      [] pc = "p_embed"         -> [stage |-> "Generating embeddings", current_progress |-> 70]
      [] pc = "p_embed_done"    -> [stage |-> "Embeddings generated", current_progress |-> 80]
      [] pc = "p_store"         -> [stage |-> "Storing in vector DB", current_progress |-> 90]
      [] pc = "p_store_done"    -> [stage |-> "Vector DB storage complete", current_progress |-> 95]
      [] pc = "p_completed"     -> [stage |-> "Processing completed", current_progress |-> 100]

ProgressPcs == {"p_init", "p_download", "p_download_done", "p_extract", "p_extract_done",
                "p_summary", "p_summary_done", "p_chunk", "p_chunk_done", "p_embed",
                "p_embed_done", "p_store", "p_store_done", "p_completed"}

\* A run that has not been dispatched.
\*   pc        the statement the run is at
\*   trace     the stages the run has begun, in order
\*   raisedAt  the statement that raised into the except clause or out of the task
\*   escaped   an exception left the task function
\*   faults    progress updates of this run that were lost or raised
\*   chunks    len(chunks) once the text is split
\*   embs      len(chunk_embeddings) once the embedder has returned
\*   addAck    "ok" once collection.add has written the run's items
\*   temp      the temporary file at temp_pdf_path exists
IdleRun == [pc |-> "idle", trace |-> <<>>, raisedAt |-> "none", escaped |-> FALSE,
            faults |-> 0, chunks |-> 0, embs |-> 0, addAck |-> "none", temp |-> FALSE]

-----------------------------------------------------------------------------
(* A query_document request *)

\* The response of a request: status code, reason, and the two keys of the
\* success body.
NoResponse == [code |-> 0, detail |-> "", llm_answer |-> "", retrieved_chunks |-> <<>>]

\* raise HTTPException(status_code, detail)
HttpError(code, detail) == [NoResponse EXCEPT !.code = code, !.detail = detail]

\* The locals of a request:
\*   status    document.processing_status as read by db.get ("none": no row)
\*   calls     the services called so far
\*   embs      len(query_embeddings_raw) once the embedder has returned
\*   cands     retrieved_chunks_for_reranking
\*   passages  reranked_chunks_info
\*   prompt    context_chunks, the passages placed in the prompt
\*   resp      the response
NoRequest == [status |-> "none", calls |-> {}, embs |-> 0, cands |-> <<>>, passages |-> <<>>,
              prompt |-> <<>>, resp |-> NoResponse]

\* No service method has been called.
NoServiceCall == [op |-> "none"]

-----------------------------------------------------------------------------
(* LLMService.generate_summary *)

\* Texts are sequences of pieces, a piece being a stretch of text the
\* splitter does not break, named by its token count; count_tokens of a text
\* is the sum over its pieces.  Token counts are scaled down: the budgets
\* below stand in the same order as the program's (overheads well under
\* max_input_tokens).

\* Pieces of an input text.
MaxPieces == 3
\* Recursive calls of generate_summary followed.
MaxDepth == 3

\* A piece no larger than a chunk, a larger one, and one whose section
\* prompt exceeds max_input_tokens.
PieceTokens == {3, 5, 10}

\* What generate_text returns: None (-1), the empty text (0), or a text of
\* that many tokens, whatever cap the call asked for.
None == 0 - 1
Replies == {None, 0, 2, 5}

\* max_input_tokens and words_per_chunk_summary, the parameters of
\* generate_summary.
max_input_tokens == 12
words_per_chunk_summary == 100

\* The values of words_per_chunk_summary a call of generate_summary is given:
\* the default, one whose token count is no whole number for two chunks
\* (2 * 101 * 1.3 = 262.6), and one that reaches the cap of the reduce call
\* with three chunks.
WordsPerChunkSummary == {words_per_chunk_summary, 101, 1000}

\* count_tokens of the three strings the overheads are measured on.
base_prompt_overhead_direct == 2
base_prompt_overhead_section == 3
base_prompt_overhead_reduce == 4

\* The prompts are built from other literals than the measured strings: the
\* same sentences, with line breaks and indentation between them, with
\* emphasis marks and an added example in the section and reduce templates,
\* and with the section number.  The tokens each has beyond its measured
\* string:
direct_template_extra == 1
section_template_extra == 1
reduce_template_extra == 2

Max(a, b) == IF a >= b THEN a ELSE b
Min(a, b) == IF a <= b THEN a ELSE b

RECURSIVE SumSeq(_)
SumSeq(list) == IF list = <<>> THEN 0 ELSE Head(list) + SumSeq(Tail(list))

\* count_tokens(text)
count_tokens(text) == SumSeq(text)

\* Mutant of words_to_tokens: the number of words is taken as a number of
\* tokens.
words_to_tokens_unconverted(words) == words

\* Mutant of words_to_tokens: the product is rounded to the nearest integer.
words_to_tokens_rounded(words) == (words * 13 + 5) \div 10

\* _words_to_tokens: int(words * 1.3), for words >= 0 (the nearest double to
\* 1.3 lies above it by less than 1e-16, so the product of an integer below
\* 2^50 never falls under a whole number it should reach)
words_to_tokens(words) == (words * 13) \div 10

\* max_final_summary_tokens_cap
max_final_summary_tokens_cap == 3000

\* max_input_tokens - max(the three overheads): the usable budget.
effective_content_limit_for_splitting ==
    max_input_tokens - Max(base_prompt_overhead_direct,
                           Max(base_prompt_overhead_section, base_prompt_overhead_reduce))

\* int(effective_content_limit_for_splitting * 0.8)
chunk_size_for_summarization == (effective_content_limit_for_splitting * 8) \div 10

\* int(chunk_size_for_summarization * 0.1)
chunk_overlap_for_summarization == chunk_size_for_summarization \div 10

\* The splitter, when a piece does not fit the chunk being built: pieces are
\* dropped from the front of that chunk until what is left is within the
\* overlap and leaves room for the piece.
RECURSIVE DropOverlap(_, _)
DropOverlap(cur, piece) ==
    IF /\ cur # <<>>
       /\ \/ SumSeq(cur) > chunk_overlap_for_summarization
          \/ SumSeq(cur) + piece > chunk_size_for_summarization
    THEN DropOverlap(Tail(cur), piece)
    ELSE cur

\* The splitter's merge: pieces are gathered into a chunk while they fit
\* chunk_size; a piece larger than chunk_size makes a chunk of its own.
RECURSIVE MergeSplits(_, _)
MergeSplits(pieces, cur) ==
    IF pieces = <<>>
    THEN IF cur = <<>> THEN <<>> ELSE <<cur>>
    ELSE IF cur # <<>> /\ SumSeq(cur) + Head(pieces) > chunk_size_for_summarization
         THEN <<cur>> \o MergeSplits(Tail(pieces),
                                     Append(DropOverlap(cur, Head(pieces)), Head(pieces)))
         ELSE MergeSplits(Tail(pieces), Append(cur, Head(pieces)))

\* text_splitter.split_text(text_content): the chunks, each a text.
split_text(text) == MergeSplits(text, <<>>)

\* count_tokens(chunk_summary_prompt): the section template around the chunk.
SectionPromptTokens(chunk) ==
    base_prompt_overhead_section + section_template_extra + count_tokens(chunk)

\* Mutant of FitsBudget: a text of exactly the usable budget is chunked.
FitsBudgetStrict(text) == count_tokens(text) < effective_content_limit_for_splitting

\* count_tokens(text_content) <= effective_content_limit_for_splitting
FitsBudget(text) == count_tokens(text) <= effective_content_limit_for_splitting

\* if chunk_summary: / if summary:
Truthy(reply) == reply > 0

\* Mutant of NextSection: a chunk whose call failed is tried again.
NextSectionRetry(i, reply) == IF Truthy(reply) THEN i + 1 ELSE i

\* for i, chunk in enumerate(chunks): the loop goes on to the next chunk.
NextSection(i, reply) == i + 1

\* The state of a call of generate_summary:
\*   pc         "idle", "start", "loop", "reduce", "done", and "returned"
\*              once the caller has taken the result
\*   input      the text_content of the outermost call
\*   text       the text_content of the innermost call
\*   words      words_per_chunk_summary
\*   depth      the number of recursive calls entered
\*   chunks     the chunks of text, i the loop's position, summaries the
\*              section summaries gathered (each a piece of the joined text)
\*   skipped    the chunks of this level skipped for their prompt's size
\*   asked      the chunks of this level a section call was issued for
\*   calls      the number of generate_text calls issued
\*   last       the latest of them: kind, output cap, prompt size and reply
\*   levels     per level finished: chunks, section calls and skipped chunks
\*   result     what the outermost call returns: "pending", "none", "text",
\*              "raise", and the reply returned on the direct path
NoSummaryCall == [pc |-> "idle", input |-> <<>>, text |-> <<>>,
                  words |-> words_per_chunk_summary, depth |-> 0,
                  chunks |-> <<>>, i |-> 0, summaries |-> <<>>,
                  skipped |-> <<>>, asked |-> <<>>, calls |-> 0,
                  last |-> [kind |-> "none", max_tokens |-> 0, prompt_tokens |-> 0,
                            reply |-> None],
                  levels |-> <<>>, result |-> "pending", returned |-> None]

\* generate_summary(text_content) is called.
SummaryCall(text) == [NoSummaryCall EXCEPT !.pc = "start", !.input = text, !.text = text]

\* generate_summary(text_content, words_per_chunk_summary=words) is called.
SummaryCallWith(text, words) == [SummaryCall(text) EXCEPT !.words = words]

\* generate_text(prompt, max_tokens=cap) and what it returned.
Call(kind, cap, prompt, reply) ==
    [kind |-> kind, max_tokens |-> cap, prompt_tokens |-> prompt, reply |-> reply]

\* count_tokens of the direct and of the reduce prompt around their text.
DirectPromptTokens(text) ==
    base_prompt_overhead_direct + direct_template_extra + count_tokens(text)
ReducePromptTokens(text) ==
    base_prompt_overhead_reduce + reduce_template_extra + count_tokens(text)

\* The direct path: one generate_text call, capped at twice the section cap,
\* and its result returned as it is.
SummaryDirect ==
    /\ gs.pc = "start"
    /\ FitsBudget(gs.text)
    /\ \E reply \in Replies :
          gs' = [gs EXCEPT !.pc = "done",
                           !.calls = @ + 1,
                           !.last = Call("direct",
                                         words_to_tokens(gs.words * 2),
                                         DirectPromptTokens(gs.text), reply),
                           !.result = IF reply = None THEN "none" ELSE "text",
                           !.returned = reply]
    /\ UNCHANGED <<upload, file, object, row, coll, run, meta, del, query, poll, statusResp, q, svc, chroma, caller>>

\* Otherwise the text is split into chunks and the loop over them starts.
SummarySplit ==
    /\ gs.pc = "start"
    /\ ~FitsBudget(gs.text)
    /\ gs' = [gs EXCEPT !.pc = "loop", !.chunks = split_text(gs.text), !.i = 1,
                        !.summaries = <<>>, !.skipped = <<>>, !.asked = <<>>]
    /\ UNCHANGED <<upload, file, object, row, coll, run, meta, del, query, poll, statusResp, q, svc, chroma, caller>>

\* One turn of the loop: a chunk whose prompt exceeds max_input_tokens is
\* skipped; for any other one generate_text call is issued and its reply, if
\* there is one, kept.
SummarizeChunk ==
    /\ gs.pc = "loop"
    /\ gs.i <= Len(gs.chunks)
    /\ IF SectionPromptTokens(gs.chunks[gs.i]) > max_input_tokens
       THEN gs' = [gs EXCEPT !.skipped = Append(@, gs.i), !.i = @ + 1]
       ELSE \E reply \in Replies :
               gs' = [gs EXCEPT
                        !.asked = Append(@, gs.i),
                        !.calls = @ + 1,
                        !.last = Call("section",
                                      words_to_tokens(gs.words),
                                      SectionPromptTokens(gs.chunks[gs.i]), reply),
                        !.summaries = IF Truthy(reply) THEN Append(@, reply) ELSE @,
                        !.i = NextSection(@, reply)]
    /\ UNCHANGED <<upload, file, object, row, coll, run, meta, del, query, poll, statusResp, q, svc, chroma, caller>>

\* After the loop: no summary at all returns None; summaries that joined
\* still exceed the usable budget are the text of a recursive call; any
\* others go to the reduce call.
SummaryCombine ==
    /\ gs.pc = "loop"
    /\ gs.i > Len(gs.chunks)
    /\ LET level == [chunks |-> Len(gs.chunks), calls |-> Len(gs.asked),
                     skipped |-> Len(gs.skipped)]
       IN  IF gs.summaries = <<>>
           THEN gs' = [gs EXCEPT !.pc = "done", !.result = "none",
                                 !.levels = Append(@, level)]
           ELSE IF ~FitsBudget(gs.summaries)
                THEN /\ gs.depth < MaxDepth
                     /\ gs' = [gs EXCEPT !.pc = "start", !.text = gs.summaries,
                                         !.depth = @ + 1,
                                         !.levels = Append(@, level)]
                ELSE gs' = [gs EXCEPT !.pc = "reduce", !.levels = Append(@, level)]
    /\ UNCHANGED <<upload, file, object, row, coll, run, meta, del, query, poll, statusResp, q, svc, chroma, caller>>

\* The reduce call, capped at min(_words_to_tokens(len(chunks) * words), 3000);
\* final_summary.rsplit raises when the reply is None.
SummaryReduce ==
    /\ gs.pc = "reduce"
    /\ \E reply \in Replies :
          gs' = [gs EXCEPT !.pc = "done",
                           !.calls = @ + 1,
                           !.last = Call("reduce",
                                         Min(words_to_tokens(Len(gs.chunks) * gs.words),
                                             max_final_summary_tokens_cap),
                                         ReducePromptTokens(gs.summaries), reply),
                           !.result = IF reply = None THEN "raise" ELSE "text"]
    /\ UNCHANGED <<upload, file, object, row, coll, run, meta, del, query, poll, statusResp, q, svc, chroma, caller>>

-----------------------------------------------------------------------------
Init ==
    /\ upload = "new"
    /\ file = NoFile
    /\ object = FALSE
    /\ row = NoRow
    /\ coll = NoCollection
    /\ run = [r \in Runs |-> IdleRun]
    /\ meta = [r \in Runs |-> NoMeta]
    /\ del = "idle"
    /\ query = "idle"
    /\ poll = "idle"
    /\ statusResp = [db_status |-> "none", current_progress |-> 0]
    /\ q = NoRequest
    /\ gs = NoSummaryCall
    /\ svc = NoServiceCall
    /\ chroma = <<>>
    /\ caller = NoCallers

-----------------------------------------------------------------------------
(* upload_document *)

\* A file whose name does not end in ".pdf" is answered 400 before anything
\* is stored.
UploadReject ==
    /\ upload = "new"
    /\ upload' = "rejected"
    /\ UNCHANGED <<file, object, row, coll, run, meta, del, query, poll, statusResp, q, gs, svc, chroma, caller>>

\* s3_service.upload_file: the object is put and its URL returned, or the
\* put fails, None is returned and the request is answered 500.
UploadStore ==
    /\ upload = "new"
    /\ \E f \in PdfFiles, ok \in BOOLEAN :
          IF ok
          THEN /\ file' = f
               /\ object' = TRUE
               /\ upload' = "stored"
          ELSE /\ upload' = "failed"
               /\ UNCHANGED <<file, object>>
    /\ UNCHANGED <<row, coll, run, meta, del, query, poll, statusResp, q, gs, svc, chroma, caller>>

\* create_document commits the PENDING row and process_pdf_task.delay sends
\* the task of the first run.  When the broker does not take the task, delay
\* raises: the except clause deletes the stored object (a failed deletion is
\* only logged) and answers 500; the row stays committed.
UploadCreate ==
    /\ upload = "stored"
    /\ row' = NewRow
    /\ \E sent \in BOOLEAN :
          IF sent
          THEN /\ run' = [run EXCEPT ![1].pc = "queued"]
               /\ upload' = "dispatched"
               /\ UNCHANGED object
          ELSE /\ \E ok \in BOOLEAN : object' = (object /\ ~ok)
               /\ upload' = "failed"
               /\ UNCHANGED run
    /\ UNCHANGED <<file, coll, meta, del, query, poll, statusResp, q, gs, svc, chroma, caller>>

\* The commit of celery_task_id.  It raises when the row has been deleted
\* meanwhile; the except clause then deletes the stored object (a failed
\* deletion is only logged) and answers 500.
UploadCommitTask ==
    /\ upload = "dispatched"
    /\ IF row.exists
       THEN /\ row' = [row EXCEPT !.task = TRUE]
            /\ upload' = "done"
            /\ UNCHANGED object
       ELSE /\ \E ok \in BOOLEAN : object' = (object /\ ~ok)
            /\ upload' = "failed"
            /\ UNCHANGED row
    /\ UNCHANGED <<file, coll, run, meta, del, query, poll, statusResp, q, gs, svc, chroma, caller>>

-----------------------------------------------------------------------------
(* process_pdf_task *)

\* The run r with an exception raised by its current statement.
Raise(rr) ==
    [rr EXCEPT !.raisedAt = rr.pc,
               !.escaped = ~InTry(rr.pc),
               !.pc = OnRaise(rr.pc)]

\* The run r moved to its next statement.
Advance(rr) == [rr EXCEPT !.pc = NextPc(rr.pc)]

\* The run r with the stage of its current statement begun.
Begin(rr) == [rr EXCEPT !.trace = Append(@, StageOf(rr.pc))]

\* What a call of update_state can do: record the state, lose it without
\* an error, or raise.  A run suffers at most MaxUpdateFaults faulty calls.
UpdateOutcomes(rr) ==
    IF rr.faults < MaxUpdateFaults THEN {"ok", "lost", "raise"} ELSE {"ok"}

\* The worker starts the task (STARTED is recorded) and the function looks
\* its Document up: a missing row ends the run at once.
RunLoad(r) ==
    /\ run[r].pc = "queued"
    /\ meta' = [meta EXCEPT ![r] = StartedMeta]
    /\ run' = [run EXCEPT ![r].pc = IF row.exists THEN "set_processing" ELSE "return"]
    /\ UNCHANGED <<upload, file, object, row, coll, del, query, poll, statusResp, q, gs, svc, chroma, caller>>

\* processing_status = PROCESSING, committed whatever the status was.  The
\* statement stands before the try block: its exception leaves the task.
RunSetProcessing(r) ==
    /\ run[r].pc = "set_processing"
    /\ IF row.exists
       THEN /\ row' = [row EXCEPT !.status = PROCESSING]
            /\ run' = [run EXCEPT ![r].pc = "p_init"]
       ELSE /\ run' = [run EXCEPT ![r] = Raise(run[r])]
            /\ UNCHANGED row
    /\ UNCHANGED <<upload, file, object, coll, meta, del, query, poll, statusResp, q, gs, svc, chroma, caller>>

\* update_processing_progress(stage, current_progress)
RunProgress(r) ==
    /\ run[r].pc \in ProgressPcs
    /\ \E o \in UpdateOutcomes(run[r]) :
          /\ meta' = IF o = "ok"
                     THEN [meta EXCEPT ![r] = ProgressMeta(ProgressAt(run[r].pc))]
                     ELSE meta
          /\ run' = [run EXCEPT ![r] =
                        IF o = "ok" THEN Advance(run[r])
                        ELSE IF o = "lost" THEN [Advance(run[r]) EXCEPT !.faults = @ + 1]
                        ELSE [Raise(run[r]) EXCEPT !.faults = @ + 1]]
    /\ UNCHANGED <<upload, file, object, row, coll, del, query, poll, statusResp, q, gs, svc, chroma, caller>>

\* 1. s3_service.download_file returns the bytes of an object that exists,
\* unless the call fails; None raises.  The bytes go to a NamedTemporaryFile
\* (delete=False) whose name is kept in temp_pdf_path before the write; the
\* write itself can raise, leaving the file behind.
RunDownload(r) ==
    /\ run[r].pc = "download"
    /\ \E ok \in BOOLEAN, written \in BOOLEAN :
          run' = [run EXCEPT ![r] =
                    IF object /\ ok
                    THEN IF written
                         THEN [Advance(Begin(run[r])) EXCEPT !.temp = TRUE]
                         ELSE [Raise(Begin(run[r])) EXCEPT !.temp = TRUE]
                    ELSE Raise(Begin(run[r]))]
    /\ UNCHANGED <<upload, file, object, row, coll, meta, del, query, poll, statusResp, q, gs, svc, chroma, caller>>

\* 2. fitz.open and page.get_text: a file that cannot be opened and a text
\* that is empty or whitespace both raise.
RunExtract(r) ==
    /\ run[r].pc = "extract"
    /\ run' = [run EXCEPT ![r] =
                 IF file.kind = "text" THEN Advance(Begin(run[r])) ELSE Raise(Begin(run[r]))]
    /\ UNCHANGED <<upload, file, object, row, coll, meta, del, query, poll, statusResp, q, gs, svc, chroma, caller>>

\* summary = asyncio.run(llm_service.generate_summary(...)) has returned a
\* text, returned nothing (None or the empty text) or raised: a text is
\* committed to the row, nothing is only printed, an exception (the call's
\* own or the commit's) goes to the except clause.
SummarizeOutcome(r, o) ==
    IF o = "text" /\ row.exists
    THEN /\ row' = [row EXCEPT !.summary = TRUE]
         /\ run' = [run EXCEPT ![r] = Advance(Begin(run[r]))]
    ELSE /\ run' = [run EXCEPT ![r] =
                      IF o = "none" THEN Advance(Begin(run[r]))
                      ELSE Raise(Begin(run[r]))]
         /\ UNCHANGED row

\* llm_service.generate_summary returns a text, returns None or raises; a
\* text is committed to the row.
RunSummarize(r) ==
    /\ run[r].pc = "summarize"
    /\ \E o \in {"text", "none", "raise"} : SummarizeOutcome(r, o)
    /\ UNCHANGED <<upload, file, object, coll, meta, del, query, poll, statusResp, q, gs, svc, chroma, caller>>

\* full_text, the extracted text of a run: one that fits the usable budget,
\* one that splits into two chunks, one whose only chunk is too long for a
\* section prompt, and one with a chunk of each kind.
FullTexts == {<<3>>, <<5, 5>>, <<10>>, <<3, 10>>}

\* The same stage with the call of generate_summary followed step by step.
\* The run calls generate_summary(full_text, max_input_tokens=30000) on the
\* extracted text, which is not empty.
SummaryStart(r) ==
    /\ run[r].pc = "summarize"
    /\ gs.pc = "idle"
    /\ \E text \in FullTexts : gs' = SummaryCall(text)
    /\ UNCHANGED <<upload, file, object, row, coll, run, meta, del, query, poll, statusResp, q, svc, chroma, caller>>

\* Mutant of SummaryOutcome: a call that returns no summary counts as raised.
SummaryOutcomeStrict(g) ==
    IF g.result = "text" /\ (g.last.kind = "reduce" \/ Truthy(g.returned))
    THEN "text"
    ELSE "raise"

\* What the run sees of a finished call: the exception of the reduce path,
\* a summary (if summary:), or nothing.  The reduce path returns
\* parts[0].strip() + ".", never an empty text; the direct path returns the
\* reply as it is, which can be empty.
SummaryOutcome(g) ==
    IF g.result = "raise"
    THEN "raise"
    ELSE IF g.result = "text" /\ (g.last.kind = "reduce" \/ Truthy(g.returned))
         THEN "text"
         ELSE "none"

\* The call has returned or raised into the run; of the call only the result
\* and the kind of its last generation call are kept.
RunSummarizeReturn(r) ==
    /\ run[r].pc = "summarize"
    /\ gs.pc = "done"
    /\ SummarizeOutcome(r, SummaryOutcome(gs))
    /\ gs' = [NoSummaryCall EXCEPT !.pc = "returned",
                                   !.result = gs.result,
                                   !.last = [NoSummaryCall.last EXCEPT !.kind = gs.last.kind]]
    /\ UNCHANGED <<upload, file, object, coll, meta, del, query, poll, statusResp, q, svc, chroma, caller>>

\* 3. text_splitter.split_text; no chunk raises.
RunChunk(r) ==
    /\ run[r].pc = "chunk"
    /\ run' = [run EXCEPT ![r] =
                 IF file.chunks = 0
                 THEN Raise(Begin(run[r]))
                 ELSE [Advance(Begin(run[r])) EXCEPT !.chunks = file.chunks]]
    /\ UNCHANGED <<upload, file, object, row, coll, meta, del, query, poll, statusResp, q, gs, svc, chroma, caller>>

\* EmbeddingService.get_embeddings: the number of embeddings returned for n
\* texts, none when the model is not loaded or encode raises.
GetEmbeddings(n, ok) == IF ok THEN n ELSE 0

\* Mutant of EmbeddingsMissing: an empty result is not noticed.
EmbeddingsMissingIgnored(embs) == FALSE

\* if not chunk_embeddings
EmbeddingsMissing(embs) == embs = 0

\* 4. embedding_service.get_embeddings(chunks); an empty result raises.
RunEmbed(r) ==
    /\ run[r].pc = "embed"
    /\ \E ok \in BOOLEAN :
          LET e == GetEmbeddings(run[r].chunks, ok)
          IN  run' = [run EXCEPT ![r] =
                        IF EmbeddingsMissing(e)
                        THEN [Raise(Begin(run[r])) EXCEPT !.embs = e]
                        ELSE [Advance(Begin(run[r])) EXCEPT !.embs = e]]
    /\ UNCHANGED <<upload, file, object, row, coll, meta, del, query, poll, statusResp, q, gs, svc, chroma, caller>>

\* VectorDBService.get_or_create_collection: the collection as it is, or a
\* new empty one; None when the vector store fails.
GetOrCreate(c, ok) ==
    IF ~ok \/ c.exists THEN c ELSE [exists |-> TRUE, items |-> {}]

\* 5. get_or_create_collection(f"doc_{document.id}"); None raises.
RunGetCollection(r) ==
    /\ run[r].pc = "get_collection"
    /\ \E ok \in BOOLEAN :
          /\ coll' = GetOrCreate(coll, ok)
          /\ run' = [run EXCEPT ![r] =
                       IF ok THEN Advance(Begin(run[r])) ELSE Raise(Begin(run[r]))]
    /\ UNCHANGED <<upload, file, object, row, meta, del, query, poll, statusResp, q, gs, svc, chroma, caller>>

\* add_chunks_to_collection(collection, chunks, chunk_embeddings, metadatas,
\* chunk_ids): it returns None whatever happened and the run goes on.
RunAddChunks(r) ==
    /\ run[r].pc = "add_chunks"
    /\ \E ok \in BOOLEAN :
          LET n    == run[r].chunks
              ids  == ChunkIds(DocId, n)
              embs == Embeddings(run[r].embs)
          IN  /\ coll' = AddChunks(coll, ids, ChunkTexts(n), embs, Metadatas(DocId, n), ok)
              /\ run' = [run EXCEPT ![r] =
                           [Advance(run[r]) EXCEPT !.addAck =
                               IF AddWritten(coll, ids, ChunkTexts(n), embs, ok)
                               THEN "ok" ELSE "failed"]]
    /\ UNCHANGED <<upload, file, object, row, meta, del, query, poll, statusResp, q, gs, svc, chroma, caller>>

\* 6. processing_status = COMPLETED, committed.
RunComplete(r) ==
    /\ run[r].pc = "complete"
    /\ IF row.exists
       THEN /\ row' = [row EXCEPT !.status = COMPLETED]
            /\ run' = [run EXCEPT ![r] = Advance(Begin(run[r]))]
       ELSE /\ run' = [run EXCEPT ![r] = Raise(Begin(run[r]))]
            /\ UNCHANGED row
    /\ UNCHANGED <<upload, file, object, coll, meta, del, query, poll, statusResp, q, gs, svc, chroma, caller>>

\* except Exception: processing_status = FAILED, committed.  A commit that
\* raises here leaves the task through the finally clause.
RunSetFailed(r) ==
    /\ run[r].pc = "set_failed"
    /\ IF row.exists
       THEN /\ row' = [row EXCEPT !.status = FAILED]
            /\ run' = [run EXCEPT ![r].pc = "fail_update"]
       ELSE /\ run' = [run EXCEPT ![r].pc = "cleanup", ![r].escaped = TRUE]
            /\ UNCHANGED row
    /\ UNCHANGED <<upload, file, object, coll, meta, del, query, poll, statusResp, q, gs, svc, chroma, caller>>

\* self.update_state(state='FAILED', meta={'exc': str(e), 'current_progress': 0})
RunFailUpdate(r) ==
    /\ run[r].pc = "fail_update"
    /\ \E o \in UpdateOutcomes(run[r]) :
          /\ meta' = IF o = "ok" THEN [meta EXCEPT ![r] = FailedMeta] ELSE meta
          /\ run' = [run EXCEPT ![r].pc = "cleanup",
                                ![r].faults = IF o = "ok" THEN @ ELSE @ + 1,
                                ![r].escaped = (o = "raise")]
    /\ UNCHANGED <<upload, file, object, row, coll, del, query, poll, statusResp, q, gs, svc, chroma, caller>>

\* Mutant of RemoveTemp: the file is removed only when nothing was raised.
RemoveTempOnSuccess(rr) == IF rr.raisedAt = "none" THEN [rr EXCEPT !.temp = FALSE] ELSE rr

\* if temp_pdf_path and os.path.exists(temp_pdf_path): os.remove(temp_pdf_path)
RemoveTemp(rr) == [rr EXCEPT !.temp = FALSE]

\* finally: the temporary file is removed.
RunCleanup(r) ==
    /\ run[r].pc = "cleanup"
    /\ run' = [run EXCEPT ![r] = [RemoveTemp(run[r]) EXCEPT !.pc = "return"]]
    /\ UNCHANGED <<upload, file, object, row, coll, meta, del, query, poll, statusResp, q, gs, svc, chroma, caller>>

\* The task function is left; Celery records SUCCESS or FAILURE.
RunReturn(r) ==
    /\ run[r].pc = "return"
    /\ meta' = [meta EXCEPT ![r] = ReturnMeta(run[r].escaped)]
    /\ run' = [run EXCEPT ![r].pc = "done"]
    /\ UNCHANGED <<upload, file, object, row, coll, del, query, poll, statusResp, q, gs, svc, chroma, caller>>

\* process_pdf_task is sent once more for the Document: a fresh run asked
\* for from outside.
Redispatch(r) ==
    /\ r > 1
    /\ run[r].pc = "idle"
    /\ run[r - 1].pc # "idle"
    /\ run' = [run EXCEPT ![r].pc = "queued"]
    /\ UNCHANGED <<upload, file, object, row, coll, meta, del, query, poll, statusResp, q, gs, svc, chroma, caller>>

\* The statements of a run with the call of generate_summary followed.
RunStepSummary(r) ==
    \/ RunLoad(r)
    \/ RunSetProcessing(r)
    \/ RunProgress(r)
    \/ RunDownload(r)
    \/ RunExtract(r)
    \/ SummaryStart(r)
    \/ RunSummarizeReturn(r)
    \/ RunChunk(r)
    \/ RunEmbed(r)
    \/ RunGetCollection(r)
    \/ RunAddChunks(r)
    \/ RunComplete(r)
    \/ RunSetFailed(r)
    \/ RunFailUpdate(r)
    \/ RunCleanup(r)
    \/ RunReturn(r)

RunStep(r) ==
    \/ RunLoad(r)
    \/ RunSetProcessing(r)
    \/ RunProgress(r)
    \/ RunDownload(r)
    \/ RunExtract(r)
    \/ RunSummarize(r)
    \/ RunChunk(r)
    \/ RunEmbed(r)
    \/ RunGetCollection(r)
    \/ RunAddChunks(r)
    \/ RunComplete(r)
    \/ RunSetFailed(r)
    \/ RunFailUpdate(r)
    \/ RunCleanup(r)
    \/ RunReturn(r)

-----------------------------------------------------------------------------
(* delete_document *)

\* db.get(Document, document_id) for a request of user u: a missing row and
\* a row of another owner are answered 404 and nothing is touched.
DeleteLookupBy(u) ==
    /\ del = "idle"
    /\ del' = IF Accessible(row, u) THEN "s3" ELSE "idle"
    /\ UNCHANGED <<upload, file, object, row, coll, run, meta, query, poll, statusResp, q, gs, svc, chroma>>

\* A delete request of the uploader.
DeleteLookup == DeleteLookupBy(UploaderId) /\ UNCHANGED caller

\* A delete request of any user.
DeleteRequest(u) ==
    /\ DeleteLookupBy(u)
    /\ caller' = [caller EXCEPT !.del = Caller(row, u)]

\* S3Service.delete_file: True when the object is gone, False (logged) when
\* the store refused; the handler only prints a warning on False.
DeleteObject ==
    /\ del = "s3"
    /\ \E ok \in BOOLEAN : object' = (object /\ ~ok)
    /\ del' = "collection"
    /\ UNCHANGED <<upload, file, row, coll, run, meta, query, poll, statusResp, q, gs, svc, chroma, caller>>

\* VectorDBService.delete_collection on content c: the collection is gone,
\* or the vector store raised and False is returned.
DeleteCollectionOf(c, ok) == IF ok THEN NoCollection ELSE c

\* vector_db_service.delete_collection(f"doc_{document.id}"); the result is
\* not looked at.
DeleteCollection ==
    /\ del = "collection"
    /\ \E ok \in BOOLEAN : coll' = DeleteCollectionOf(coll, ok)
    /\ del' = "row"
    /\ UNCHANGED <<upload, file, object, row, run, meta, query, poll, statusResp, q, gs, svc, chroma, caller>>

\* crud.delete_document: the row, if still there, is deleted; 204.
DeleteRow ==
    /\ del = "row"
    /\ row' = NoRow
    /\ del' = "idle"
    /\ UNCHANGED <<upload, file, object, coll, run, meta, query, poll, statusResp, q, gs, svc, chroma, caller>>

-----------------------------------------------------------------------------
(* query_document *)

\* INITIAL_CHROMA_RESULTS and TOP_N_RERANKED_RESULTS
INITIAL_CHROMA_RESULTS == 10
TOP_N_RERANKED_RESULTS == 5

\* Mutant of Queryable: the status is not looked at.
QueryableAny(st) == TRUE

\* document.processing_status != DocumentStatus.COMPLETED is answered 409.
Queryable(st) == st = COMPLETED

\* Mutant of NoResults: an empty list is not noticed.
NoResultsIgnored(list) == FALSE

\* if not retrieved_chunks_for_reranking / if not reranked_chunks_info
NoResults(list) == Len(list) = 0

\* if not llm_response: None and the empty string
NoAnswer(reply) == reply \in {"none", ""}

\* Mutant of Take: the list is not cut.
TakeAll(list, n) == list

\* list[:n]
Take(list, n) == SubSeq(list, 1, IF Len(list) < n THEN Len(list) ELSE n)

\* The items of a collection in the order of their chunk index.
RECURSIVE ItemsByIndex(_)
ItemsByIndex(items) ==
    IF items = {} THEN <<>>
    ELSE LET first == CHOOSE it \in items : \A o \in items : it.text <= o.text
         IN  <<first>> \o ItemsByIndex(items \ {first})

RECURSIVE Reverse(_)
Reverse(list) ==
    IF list = <<>> THEN <<>> ELSE Append(Reverse(Tail(list)), Head(list))

\* formatted_results: {id, document, distance, metadata} per item found, the
\* nearest first.
RECURSIVE FormatResults(_, _)
FormatResults(found, rank) ==
    IF found = <<>> THEN <<>>
    ELSE <<[id |-> Head(found).id, document |-> Head(found).text, distance |-> rank,
            metadata |-> Head(found).document_id,
            scored |-> FALSE, relevance_score |-> 0]>>
         \o FormatResults(Tail(found), rank + 1)

\* VectorDBService.query_collection: the n_results nearest items, nearest
\* first; the empty list when collection.query raises (the store fails, or
\* the collection is gone).  Which items are nearest depends on the query:
\* here the first or the last chunks of the text.
QueryCollection(c, nearest, n_results, ok) ==
    IF ~ok \/ ~c.exists THEN <<>>
    ELSE FormatResults(
            Take(IF nearest = "first" THEN ItemsByIndex(c.items)
                 ELSE Reverse(ItemsByIndex(c.items)), n_results), 1)

\* The score model.predict gives a (query, passage) pair: rising or falling
\* with the passage's place in the text, or the same for all.
ScoreOf(scores, doc) ==
    IF scores = "up" THEN doc.document
    ELSE IF scores = "down" THEN 0 - doc.document
    ELSE 0

\* doc_with_score['relevance_score'] = float(scores[i])
RECURSIVE ScoredDocuments(_, _)
ScoredDocuments(documents, scores) ==
    IF documents = <<>> THEN <<>>
    ELSE <<[Head(documents) EXCEPT !.scored = TRUE,
                                   !.relevance_score = ScoreOf(scores, Head(documents))]>>
         \o ScoredDocuments(Tail(documents), scores)

\* Mutant of InsertByScore: the list is sorted by rising score.
RECURSIVE InsertByScoreRising(_, _)
InsertByScoreRising(doc, sorted) ==
    IF sorted = <<>> THEN <<doc>>
    ELSE IF Head(sorted).relevance_score <= doc.relevance_score
         THEN <<Head(sorted)>> \o InsertByScoreRising(doc, Tail(sorted))
         ELSE <<doc>> \o sorted

\* A document put into a list sorted by falling score, behind its equals.
RECURSIVE InsertByScore(_, _)
InsertByScore(doc, sorted) ==
    IF sorted = <<>> THEN <<doc>>
    ELSE IF Head(sorted).relevance_score >= doc.relevance_score
         THEN <<Head(sorted)>> \o InsertByScore(doc, Tail(sorted))
         ELSE <<doc>> \o sorted

\* sorted(scored_documents, key=relevance_score, reverse=True): a stable sort.
RECURSIVE SortedByScore(_)
SortedByScore(list) ==
    IF list = <<>> THEN <<>>
    ELSE InsertByScore(list[Len(list)], SortedByScore(SubSeq(list, 1, Len(list) - 1)))

\* Mutant of Rerank: without a model nothing is returned.
RerankNoFallback(documents, top_n, modelOk, scores) ==
    IF ~modelOk \/ Len(documents) = 0 THEN <<>>
    ELSE Take(SortedByScore(ScoredDocuments(documents, scores)), top_n)

\* ReRankerService.rerank: without a model, or when predict raises, the
\* first top_n documents as they came; otherwise the top_n best scored.
Rerank(documents, top_n, modelOk, scores) ==
    IF ~modelOk THEN Take(documents, top_n)
    ELSE IF Len(documents) = 0 THEN <<>>
    ELSE Take(SortedByScore(ScoredDocuments(documents, scores)), top_n)

\* context_chunks = [chunk['document'] for chunk in reranked_chunks_info]
RECURSIVE ContextChunks(_)
ContextChunks(list) ==
    IF list = <<>> THEN <<>> ELSE <<Head(list).document>> \o ContextChunks(Tail(list))

\* db.get(Document, document_id) for a request of user u: 404 for a missing
\* row and for a row of another owner, 409 unless the status is COMPLETED.
QueryLookupBy(u) ==
    /\ query = "idle"
    /\ IF ~Accessible(row, u)
       THEN /\ query' = "respond"
            /\ q' = [NoRequest EXCEPT !.resp = HttpError(404, "not_found")]
       ELSE IF ~Queryable(row.status)
            THEN /\ query' = "respond"
                 /\ q' = [NoRequest EXCEPT !.status = row.status,
                                           !.resp = HttpError(409, "not_processed")]
            ELSE /\ query' = "get_collection"
                 /\ q' = [NoRequest EXCEPT !.status = row.status]
    /\ UNCHANGED <<upload, file, object, row, coll, run, meta, del, poll, statusResp, gs, svc, chroma>>

\* A query of the uploader.
QueryLookup == QueryLookupBy(UploaderId) /\ UNCHANGED caller

\* A query of any user.
QueryRequest(u) ==
    /\ QueryLookupBy(u)
    /\ caller' = [caller EXCEPT !.query = Caller(row, u)]

\* vector_db_service.get_or_create_collection(f"doc_{document.id}"), 500 on
\* None; then embedding_service.get_embeddings([query_text]), a model of the
\* server's own process, 500 on an empty result.
QueryGetCollection ==
    /\ query = "get_collection"
    /\ \E ok \in BOOLEAN, embedOk \in BOOLEAN :
          /\ coll' = GetOrCreate(coll, ok)
          /\ IF ~ok
             THEN /\ query' = "respond"
                  /\ q' = [q EXCEPT !.resp = HttpError(500, "store_unavailable")]
             ELSE IF EmbeddingsMissing(GetEmbeddings(1, embedOk))
                  THEN /\ query' = "respond"
                       /\ q' = [q EXCEPT !.calls = @ \cup {"embed"},
                                         !.embs = GetEmbeddings(1, embedOk),
                                         !.resp = HttpError(500, "embedding_failed")]
                  ELSE /\ query' = "search"
                       /\ q' = [q EXCEPT !.calls = @ \cup {"embed"},
                                         !.embs = GetEmbeddings(1, embedOk)]
    /\ UNCHANGED <<upload, file, object, row, run, meta, del, poll, statusResp, gs, svc, chroma, caller>>

\* vector_db_service.query_collection(collection, embeddings, n_results=10),
\* 404 on an empty list; then reranker_service.rerank(query, documents,
\* top_n=5), a model of the server's own process, 404 on an empty list;
\* otherwise the texts of the reranked passages make the context of the
\* prompt.
QuerySearch ==
    /\ query = "search"
    /\ \E ok \in BOOLEAN, nearest \in {"first", "last"},
          modelOk \in BOOLEAN, scores \in {"up", "down", "flat"} :
          \E found \in {QueryCollection(coll, nearest, INITIAL_CHROMA_RESULTS, ok)} :
          \E ranked \in {Rerank(found, TOP_N_RERANKED_RESULTS, modelOk, scores)} :
              IF NoResults(found)
              THEN /\ query' = "respond"
                   /\ q' = [q EXCEPT !.calls = @ \cup {"search"},
                                     !.cands = found,
                                     !.resp = HttpError(404, "no_relevant_content")]
              ELSE IF NoResults(ranked)
                   THEN /\ query' = "respond"
                        /\ q' = [q EXCEPT !.calls = @ \cup {"search", "rerank"},
                                          !.cands = found,
                                          !.passages = ranked,
                                          !.resp = HttpError(404, "no_relevant_content")]
                   ELSE /\ query' = "generate"
                        /\ q' = [q EXCEPT
                                   !.calls = @ \cup {"search", "rerank"},
                                   !.cands = found,
                                   !.passages = ranked,
                                   !.prompt = ContextChunks(ranked)]
    /\ UNCHANGED <<upload, file, object, row, coll, run, meta, del, poll, statusResp, gs, svc, chroma, caller>>

\* llm_service.generate_text(rag_prompt) returns a text, the empty text or
\* None: 500 on no answer, otherwise 200 with the answer and the reranked
\* passages.
QueryGenerate ==
    /\ query = "generate"
    /\ \E reply \in {"text", "", "none"} :
          q' = [q EXCEPT !.calls = @ \cup {"generate"},
                         !.resp = IF NoAnswer(reply)
                                  THEN HttpError(500, "generation_unavailable")
                                  ELSE [code |-> 200, detail |-> "",
                                        llm_answer |-> reply,
                                        retrieved_chunks |-> q.passages]]
    /\ query' = "respond"
    /\ UNCHANGED <<upload, file, object, row, coll, run, meta, del, poll, statusResp, gs, svc, chroma, caller>>

\* The response is sent and the request is over.
QueryRespond ==
    /\ query = "respond"
    /\ query' = "idle"
    /\ q' = NoRequest
    /\ UNCHANGED <<upload, file, object, row, coll, run, meta, del, poll, statusResp, gs, svc, chroma, caller>>

-----------------------------------------------------------------------------
(* get_document_processing_status *)

\* Mutant of PersistedStatusBody: the progress is 100 whatever the status.
PersistedStatusBodyFull(st) == [db_status |-> st, current_progress |-> 100]

\* The body for a status other than PROCESSING.
PersistedStatusBody(st) ==
    [db_status |-> st, current_progress |-> IF st = COMPLETED THEN 100 ELSE 0]

\* crud.get_document_by_id for a request of user u: 404 for a missing row and
\* for a row of another owner.  A PROCESSING row with a
\* task id sends the handler to the result backend; a PROCESSING row without
\* one is answered with progress 0; any other status is answered from the
\* row alone.
StatusLookupBy(u) ==
    /\ poll = "idle"
    /\ IF ~Accessible(row, u)
       THEN UNCHANGED <<poll, statusResp>>
       ELSE IF row.status = PROCESSING
            THEN IF row.task
                 THEN /\ poll' = "read_task"
                      /\ UNCHANGED statusResp
                 ELSE /\ statusResp' = [db_status |-> PROCESSING, current_progress |-> 0]
                      /\ UNCHANGED poll
            ELSE /\ statusResp' = PersistedStatusBody(row.status)
                 /\ UNCHANGED poll
    /\ UNCHANGED <<upload, file, object, row, coll, run, meta, del, query, q, gs, svc, chroma>>

\* A status request of the uploader.
StatusLookup == StatusLookupBy(UploaderId) /\ UNCHANGED caller

\* A status request of any user.
StatusRequest(u) ==
    /\ StatusLookupBy(u)
    /\ caller' = [caller EXCEPT !.poll = Caller(row, u)]

\* AsyncResult(celery_task_id): the record of the task upload_document sent;
\* the body carries the PROCESSING status read before.
StatusReadTask ==
    /\ poll = "read_task"
    /\ statusResp' = [db_status |-> PROCESSING, current_progress |-> MetaProgress(meta[1])]
    /\ poll' = "idle"
    /\ UNCHANGED <<upload, file, object, row, coll, run, meta, del, query, q, gs, svc, chroma, caller>>

-----------------------------------------------------------------------------
(* The service methods, called on their own *)

\* The longest ids, texts and embeddings lists handed to
\* add_chunks_to_collection.
MaxArgs == 2
\* The longest candidate list handed to rerank.
MaxCandidates == 3
\* The longest reduce reply handed to the trimming.
MaxText == 4
\* The longest title of an upload, in pieces.
MaxTitle == 2

\* get_or_create_collection("doc_<id>")
VdbGetOrCreate ==
    /\ \E ok \in BOOLEAN :
          /\ coll' = GetOrCreate(coll, ok)
          /\ svc' = [op |-> "get_or_create", before |-> coll, storeOk |-> ok]
    /\ UNCHANGED <<upload, file, object, row, run, meta, del, query, poll, statusResp, q, gs, chroma, caller>>

\* add_chunks_to_collection(collection, texts, embeddings, metadatas, ids)
\* with lists of any lengths.
VdbAdd ==
    /\ \E ni \in 0..MaxArgs, nt \in 0..MaxArgs, ne \in 0..MaxArgs, ok \in BOOLEAN :
          /\ coll' = AddChunks(coll, ChunkIds(DocId, ni), ChunkTexts(nt), Embeddings(ne),
                               Metadatas(DocId, nt), ok)
          /\ svc' = [op |-> "add", before |-> coll, storeOk |-> ok,
                     ids |-> ni, texts |-> nt, embeddings |-> ne]
    /\ UNCHANGED <<upload, file, object, row, run, meta, del, query, poll, statusResp, q, gs, chroma, caller>>

\* What delete_collection returns: True when client.delete_collection
\* returned, False when it raised, which chroma does for a name it does not
\* know as well as for a failure.
DeleteCollectionReturn(c, ok) == ok /\ c.exists

\* delete_collection("doc_<id>")
VdbDelete ==
    /\ \E ok \in BOOLEAN :
          /\ coll' = DeleteCollectionOf(coll, ok)
          /\ svc' = [op |-> "delete", before |-> coll, storeOk |-> ok,
                     ret |-> DeleteCollectionReturn(coll, ok)]
    /\ UNCHANGED <<upload, file, object, row, run, meta, del, query, poll, statusResp, q, gs, chroma, caller>>

\* The candidates of a rerank call: a result list as query_collection
\* returns it, over passages some of which can be the same text.
Candidates(texts) ==
    FormatResults([i \in 1..Len(texts) |->
                      Item(ChunkId(DocId, i - 1), texts[i], "vec", DocId)], 1)

\* The arguments of a rerank call: any candidate list and any top_n from 0
\* on, with the model loaded and predict returning (and what its scores
\* follow), or not.
RerankArgs ==
    {[op |-> "rerank_args", documents |-> Candidates(texts), top_n |-> top_n,
      modelOk |-> modelOk, scores |-> scores] :
        texts \in UNION {[1..n -> 1..MaxCandidates] : n \in 0..MaxCandidates},
        top_n \in 0..(MaxCandidates + 1),
        modelOk \in BOOLEAN,
        scores \in {"up", "down", "same"}}

\* rerank(query, documents, top_n)
RerankCall ==
    /\ svc.op = "rerank_args"
    /\ svc' = [op |-> "rerank", documents |-> svc.documents, top_n |-> svc.top_n,
               modelOk |-> svc.modelOk,
               ret |-> Rerank(svc.documents, svc.top_n, svc.modelOk, svc.scores)]
    /\ UNCHANGED <<upload, file, object, row, coll, run, meta, del, query, poll, statusResp, q, gs, chroma, caller>>

\* What the generation service does with the one request of a call:
\*   request_error  client.post raises httpx.RequestError (no connection,
\*                  timeout)
\*   status_error   raise_for_status raises httpx.HTTPStatusError
\*   invalid_json   response.json() raises
\*   no_text        the body has no "text" key, or its value is no list, or
\*                  an empty one
\*   not_a_string   text[0] is no string: count_tokens or split raises
\*   text           text[0] is a string
GenerationOutcomes ==
    {"request_error", "status_error", "invalid_json", "no_text", "not_a_string", "text"}

\* The except clause an outcome ends in, "none" when nothing is raised.
ExceptClause(outcome) ==
    IF outcome = "request_error" THEN "RequestError"
    ELSE IF outcome = "status_error" THEN "HTTPStatusError"
    ELSE IF outcome \in {"invalid_json", "not_a_string"} THEN "Exception"
    ELSE "none"

\* Requests a call of generate_text sends: self.client.post is called once,
\* outside any loop, and every except clause returns.
RequestsSent(outcome) == 1

\* Mutant of GenerateText: an error status is raised to the caller.
GenerateTextRaising(outcome, tokens) ==
    [requests |-> RequestsSent(outcome),
     raised |-> outcome = "status_error",
     ret |-> IF outcome = "text" THEN tokens ELSE None]

\* generate_text: the text of the reply (here its token count), or None
\* from the else branch and from each of the three except clauses.
GenerateText(outcome, tokens) ==
    [requests |-> RequestsSent(outcome),
     raised |-> FALSE,
     ret |-> IF outcome = "text" THEN tokens ELSE None]

\* A call of generate_text about to be made: what the generation service
\* will do with the request, and the size of the text it sends if it does.
GenerateTextArgs ==
    {[op |-> "generate_text_args", outcome |-> outcome, tokens |-> tokens] :
        outcome \in GenerationOutcomes, tokens \in Replies \ {None}}

\* generate_text(prompt, max_tokens)
GenerateTextCall ==
    /\ svc.op = "generate_text_args"
    /\ svc' = [op |-> "generate_text", outcome |-> svc.outcome,
               call |-> GenerateText(svc.outcome, svc.tokens)]
    /\ UNCHANGED <<upload, file, object, row, coll, run, meta, del, query, poll, statusResp, q, gs, chroma, caller>>

-----------------------------------------------------------------------------
(* The end of the reduce path: final_summary.rsplit('.', 1) *)

\* The characters of a generated text: a letter, the full stop, a blank.
Chars == {"a", ".", " "}

\* The texts of at most MaxText characters.
Texts == UNION {[1..n -> Chars] : n \in 0..MaxText}

\* str.rfind: the place of the last ch in text, 0 when there is none.
RECURSIVE LastIndexOf(_, _)
LastIndexOf(text, ch) ==
    IF text = <<>> THEN 0
    ELSE IF text[Len(text)] = ch THEN Len(text)
    ELSE LastIndexOf(SubSeq(text, 1, Len(text) - 1), ch)

\* text.rsplit('.', 1)[0]: what stands before the last full stop, the whole
\* text when it has none.
RsplitHead(text) ==
    IF LastIndexOf(text, ".") = 0 THEN text
    ELSE SubSeq(text, 1, LastIndexOf(text, ".") - 1)

\* str.strip(): blanks at both ends are dropped.
RECURSIVE Strip(_)
Strip(text) ==
    IF text = <<>> THEN <<>>
    ELSE IF Head(text) = " " THEN Strip(Tail(text))
    ELSE IF text[Len(text)] = " " THEN Strip(SubSeq(text, 1, Len(text) - 1))
    ELSE text

\* parts = final_summary.rsplit('.', 1); return parts[0].strip() + "."
TrimFinalSummary(final_summary) == Strip(RsplitHead(final_summary)) \o <<".">>

\* A reduce reply about to be trimmed.
TrimArgs == {[op |-> "trim_args", final_summary |-> text] : text \in Texts}

\* The last two lines of generate_summary on a reduce reply that is a text.
TrimCall ==
    /\ svc.op = "trim_args"
    /\ svc' = [op |-> "trim", final_summary |-> svc.final_summary,
               ret |-> TrimFinalSummary(svc.final_summary)]
    /\ UNCHANGED <<upload, file, object, row, coll, run, meta, del, query, poll, statusResp, q, gs, chroma, caller>>

-----------------------------------------------------------------------------
(* The object key: built by upload_document, read back from the stored
   locator by process_pdf_task and by delete_document *)

\* A text is a sequence of pieces, each a run of characters that the
\* functions below treat as a whole.  The pieces a title is made of: a
\* letter, a blank, the characters that end the path of a URL, a
\* percent-escape, and the text ".com/".
TitlePieces == {"a", " ", "?", "#", "%41", ".com/"}

\* title: Form(...), 1 to 255 characters.
Titles == UNION {[1..n -> TitlePieces] : n \in 1..MaxTitle}

\* file.filename of an accepted upload: it ends in ".pdf" in any case.
Filenames == {<<"x", ".pdf">>, <<"x", ".PDF">>}

\* title.replace(' ', '_')
RECURSIVE ReplaceBlanks(_)
ReplaceBlanks(text) ==
    IF text = <<>> THEN <<>>
    ELSE <<IF Head(text) = " " THEN "_" ELSE Head(text)>> \o ReplaceBlanks(Tail(text))

\* os.path.splitext(file.filename)[1]
file_extension(filename) == <<filename[Len(filename)]>>

\* f"raw_pdfs/{timestamp_str}_{title.replace(' ', '_')}{file_extension}"
object_name(title, filename) ==
    <<"raw_pdfs/", "20261102", "_">> \o ReplaceBlanks(title) \o file_extension(filename)

\* f"https://{bucket}.s3.{region}.amazonaws.com/{object_name}": the key is
\* put into the URL as it is.
s3_url(key) == <<"https://", "bucket.s3.region.amazonaws", ".com/">> \o key

\* The place of the first piece of text that is in set, 0 when there is none.
RECURSIVE FirstIndexIn(_, _, _)
FirstIndexIn(text, set, i) ==
    IF i > Len(text) THEN 0
    ELSE IF text[i] \in set THEN i
    ELSE FirstIndexIn(text, set, i + 1)

\* urlparse(url).path.lstrip('/'): what follows the host and its "/", up to
\* the first "?" or "#".
UrlPath(url) ==
    LET start == FirstIndexIn(url, {".com/"}, 1)
        rest  == SubSeq(url, start + 1, Len(url))
        stop  == FirstIndexIn(rest, {"?", "#"}, 1)
    IN  IF stop = 0 THEN rest ELSE SubSeq(rest, 1, stop - 1)

\* urllib.parse.unquote: a percent-escape becomes the character it stands
\* for.
RECURSIVE Unquote(_)
Unquote(text) ==
    IF text = <<>> THEN <<>>
    ELSE <<IF Head(text) = "%41" THEN "A" ELSE Head(text)>> \o Unquote(Tail(text))

\* process_pdf_task: unquote(urlparse(document.file_path).path.lstrip('/'))
RunObjectName(file_path) == Unquote(UrlPath(file_path))

\* delete_document: document.file_path.split('.com/')[-1]
DeleteObjectName(file_path) ==
    SubSeq(file_path, LastIndexOf(file_path, ".com/") + 1, Len(file_path))

\* An accepted upload about to be stored.
KeyArgs ==
    {[op |-> "key_args", title |-> title, filename |-> filename] :
        title \in Titles, filename \in Filenames}

\* The key of the upload, the locator stored in the row, and the keys the
\* run and the deletion read back from the locator.
KeyCall ==
    /\ svc.op = "key_args"
    /\ svc' = [op |-> "keys", title |-> svc.title,
               object_name |-> object_name(svc.title, svc.filename),
               file_path |-> s3_url(object_name(svc.title, svc.filename)),
               run_key |-> RunObjectName(s3_url(object_name(svc.title, svc.filename))),
               delete_key |-> DeleteObjectName(s3_url(object_name(svc.title, svc.filename)))]
    /\ UNCHANGED <<upload, file, object, row, coll, run, meta, del, query, poll, statusResp, q, gs, chroma, caller>>

-----------------------------------------------------------------------------
(* Specifications *)

Next ==
    \/ UploadReject
    \/ UploadStore
    \/ UploadCreate
    \/ UploadCommitTask
    \/ \E r \in Runs : RunStep(r)
    \/ DeleteLookup
    \/ DeleteObject
    \/ DeleteCollection
    \/ DeleteRow
    \/ QueryLookup
    \/ QueryGetCollection
    \/ QuerySearch
    \/ QueryGenerate
    \/ QueryRespond
    \/ StatusLookup
    \/ StatusReadTask

\* The program as it stands: upload_document is the only sender of the task,
\* so the Document has one run.
Spec == Init /\ [][Next]_vars

\* Upload and runs alone, with the task sent again from outside.
NextRedispatch ==
    \/ UploadReject
    \/ UploadStore
    \/ UploadCreate
    \/ UploadCommitTask
    \/ \E r \in Runs : RunStep(r)
    \/ \E r \in Runs : Redispatch(r)

SpecRedispatch == Init /\ [][NextRedispatch]_vars

\* generate_summary alone, called once on each text of up to MaxPieces pieces
\* with each of the values of words_per_chunk_summary.
InitSummary ==
    /\ upload = "new"
    /\ file = NoFile
    /\ object = FALSE
    /\ row = NoRow
    /\ coll = NoCollection
    /\ run = [r \in Runs |-> IdleRun]
    /\ meta = [r \in Runs |-> NoMeta]
    /\ del = "idle"
    /\ query = "idle"
    /\ poll = "idle"
    /\ statusResp = [db_status |-> "none", current_progress |-> 0]
    /\ q = NoRequest
    /\ svc = NoServiceCall
    /\ chroma = <<>>
    /\ caller = NoCallers
    /\ \E n \in 1..MaxPieces : \E text \in [1..n -> PieceTokens] :
          \E words \in WordsPerChunkSummary : gs = SummaryCallWith(text, words)

NextSummary ==
    \/ SummaryDirect
    \/ SummarySplit
    \/ SummarizeChunk
    \/ SummaryCombine
    \/ SummaryReduce

SpecSummary == InitSummary /\ [][NextSummary]_vars

\* Upload and the run, with the run's call of generate_summary followed
\* through its generation calls.
NextRunSummary ==
    \/ UploadReject
    \/ UploadStore
    \/ UploadCreate
    \/ UploadCommitTask
    \/ \E r \in Runs : RunStepSummary(r)
    \/ SummaryDirect
    \/ SummarySplit
    \/ SummarizeChunk
    \/ SummaryCombine
    \/ SummaryReduce

SpecRunSummary == Init /\ [][NextRunSummary]_vars

\* The methods of the vector store, called in any order with any arguments.
NextVectorStore ==
    \/ VdbGetOrCreate
    \/ VdbAdd
    \/ VdbDelete

SpecVectorStore == Init /\ [][NextVectorStore]_vars

\* The collections of several Documents side by side.  Each action is the
\* vector store part of one handler working for Document d; the Documents'
\* rows are taken to exist and to allow the call.
DocumentIds == {DocId, 11, 12}

\* The collection a name stands for in the store (none: never created or
\* deleted).
CollectionAt(store, name) ==
    IF name \in DOMAIN store THEN store[name] ELSE NoCollection

\* The store with the collection of that name replaced; a collection that
\* does not exist has no entry.
WithCollection(store, name, c) ==
    IF c.exists
    THEN [n \in DOMAIN store \cup {name} |-> IF n = name THEN c ELSE store[n]]
    ELSE [n \in DOMAIN store \ {name} |-> store[n]]

\* process_pdf_task, store stage: get_or_create_collection(f"doc_{document.id}")
\* (None raises), then add_chunks_to_collection with the ids
\* doc_<d>_chunk_<i> and the metadata {"document_id": d} of its n chunks.
IngestStore(d) ==
    /\ \E n \in ChunkCounts, ok \in BOOLEAN, engineOk \in BOOLEAN :
          LET name == collection_name(d)
              c    == GetOrCreate(CollectionAt(chroma, name), ok)
          IN  /\ chroma' = WithCollection(chroma, name,
                    IF ok THEN AddChunks(c, ChunkIds(d, n), ChunkTexts(n), Embeddings(n),
                                         Metadatas(d, n), engineOk)
                    ELSE c)
              /\ svc' = [op |-> "ingest", document_id |-> d, name |-> name, storeOk |-> ok]
    /\ UNCHANGED <<upload, file, object, row, coll, run, meta, del, query, poll, statusResp,
                   q, gs, caller>>

\* query_document: get_or_create_collection(f"doc_{document.id}") (None is
\* answered 500), then query_collection with INITIAL_CHROMA_RESULTS.
QueryStore(d) ==
    /\ \E ok \in BOOLEAN, searchOk \in BOOLEAN, nearest \in {"first", "last"} :
          LET name == collection_name(d)
              c    == GetOrCreate(CollectionAt(chroma, name), ok)
          IN  /\ chroma' = WithCollection(chroma, name, c)
              /\ svc' = [op |-> "query", document_id |-> d, name |-> name, storeOk |-> ok,
                         ret |-> IF ok
                                 THEN QueryCollection(c, nearest, INITIAL_CHROMA_RESULTS,
                                                      searchOk)
                                 ELSE <<>>]
    /\ UNCHANGED <<upload, file, object, row, coll, run, meta, del, query, poll, statusResp,
                   q, gs, caller>>

\* delete_document: vector_db_service.delete_collection(f"doc_{document.id}").
DeleteStore(d) ==
    /\ \E ok \in BOOLEAN :
          LET name == collection_name(d)
          IN  /\ chroma' = WithCollection(chroma, name,
                               DeleteCollectionOf(CollectionAt(chroma, name), ok))
              /\ svc' = [op |-> "delete", document_id |-> d, name |-> name, storeOk |-> ok]
    /\ UNCHANGED <<upload, file, object, row, coll, run, meta, del, query, poll, statusResp,
                   q, gs, caller>>

NextNames ==
    \/ \E d \in DocumentIds : IngestStore(d)
    \/ \E d \in DocumentIds : QueryStore(d)
    \/ \E d \in DocumentIds : DeleteStore(d)

SpecNames == Init /\ [][NextNames]_vars

\* One call of rerank, of generate_text, of the trimming of a reduce reply or
\* of the derivations of the object key, with any arguments.
InitCalls ==
    /\ upload = "new"
    /\ file = NoFile
    /\ object = FALSE
    /\ row = NoRow
    /\ coll = NoCollection
    /\ run = [r \in Runs |-> IdleRun]
    /\ meta = [r \in Runs |-> NoMeta]
    /\ del = "idle"
    /\ query = "idle"
    /\ poll = "idle"
    /\ statusResp = [db_status |-> "none", current_progress |-> 0]
    /\ q = NoRequest
    /\ gs = NoSummaryCall
    /\ svc \in RerankArgs \cup GenerateTextArgs \cup TrimArgs \cup KeyArgs
    /\ chroma = <<>>
    /\ caller = NoCallers

NextCalls ==
    \/ RerankCall
    \/ GenerateTextCall
    \/ TrimCall
    \/ KeyCall

SpecCalls == InitCalls /\ [][NextCalls]_vars

\* Requests of any user against a Document of the uploader.  The Document is
\* taken at two points of its life: its run has completed, or its run has
\* announced the embed stage and goes no further while the requests are
\* served.
CompletedRun(n) ==
    [IdleRun EXCEPT !.pc = "done", !.trace = Stages, !.chunks = n, !.embs = n,
                    !.addAck = "ok"]

EmbeddingRun(n) ==
    [IdleRun EXCEPT !.pc = "embed", !.trace = <<"download", "extract", "summarize", "chunk">>,
                    !.chunks = n, !.temp = TRUE]

InitAccess ==
    /\ upload = "done"
    /\ object = TRUE
    /\ \E n \in ChunkCounts, completed \in BOOLEAN :
          /\ file = [kind |-> "text", chunks |-> n]
          /\ row = [NewRow EXCEPT !.status = IF completed THEN COMPLETED ELSE PROCESSING,
                                  !.summary = TRUE, !.task = TRUE]
          /\ coll = IF completed
                    THEN [exists |-> TRUE, items |-> FullChunkSet(DocId, n)]
                    ELSE NoCollection
          /\ run = [r \in Runs |->
                      IF r # 1 THEN IdleRun
                      ELSE IF completed THEN CompletedRun(n) ELSE EmbeddingRun(n)]
          /\ meta = [r \in Runs |->
                       IF r # 1 THEN NoMeta
                       ELSE IF completed THEN ReturnMeta(FALSE)
                       ELSE ProgressMeta(ProgressAt("p_embed"))]
    /\ del = "idle"
    /\ query = "idle"
    /\ poll = "idle"
    /\ statusResp = [db_status |-> "none", current_progress |-> 0]
    /\ q = NoRequest
    /\ gs = NoSummaryCall
    /\ svc = NoServiceCall
    /\ chroma = <<>>
    /\ caller = NoCallers

NextAccess ==
    \/ \E u \in UserIds : QueryRequest(u)
    \/ QueryGetCollection
    \/ QuerySearch
    \/ QueryGenerate
    \/ QueryRespond
    \/ \E u \in UserIds : DeleteRequest(u)
    \/ DeleteObject
    \/ DeleteCollection
    \/ DeleteRow
    \/ \E u \in UserIds : StatusRequest(u)
    \/ StatusReadTask

SpecAccess == InitAccess /\ [][NextAccess]_vars

\* Upload, the run, deletion and the progress endpoint, without queries.
NextIngest ==
    \/ UploadReject
    \/ UploadStore
    \/ UploadCreate
    \/ UploadCommitTask
    \/ \E r \in Runs : RunStep(r)
    \/ DeleteLookup
    \/ DeleteObject
    \/ DeleteCollection
    \/ DeleteRow
    \/ StatusLookup
    \/ StatusReadTask

SpecIngest == Init /\ [][NextIngest]_vars

\* Upload, the run, deletion and queries, without the progress endpoint.
NextQuery ==
    \/ UploadReject
    \/ UploadStore
    \/ UploadCreate
    \/ UploadCommitTask
    \/ \E r \in Runs : RunStep(r)
    \/ DeleteLookup
    \/ DeleteObject
    \/ DeleteCollection
    \/ DeleteRow
    \/ QueryLookup
    \/ QueryGetCollection
    \/ QuerySearch
    \/ QueryGenerate
    \/ QueryRespond

SpecQuery == Init /\ [][NextQuery]_vars

-----------------------------------------------------------------------------
(* Vocabulary of the properties *)

\* The statements that do the work of a stage.
StagePcs == {"download", "extract", "summarize", "chunk", "embed",
             "get_collection", "add_chunks", "complete"}

IsPrefix(s, t) == Len(s) <= Len(t) /\ \A i \in 1..Len(s) : s[i] = t[i]

Began(rr, stage) == \E i \in 1..Len(rr.trace) : rr.trace[i] = stage

\* The run is past its except clause: FAILED was committed, or that commit
\* raised.
PastHandler(rr) ==
    /\ rr.raisedAt \in StagePcs \cup ProgressPcs
    /\ rr.pc \in {"fail_update", "cleanup", "return", "done"}

\* The record carries a progress percentage.
HasProgress(m) == m.isDict /\ "current_progress" \in m.keys

-----------------------------------------------------------------------------
(* C1 *)

\* C1: the status of the Document changes only along PENDING->PROCESSING,
\* PROCESSING->COMPLETED and PROCESSING->FAILED; a terminal status changes
\* only by the start of a newly dispatched run, which sets PROCESSING.
C1_StatusTransitions ==
    [][ (row.exists /\ row'.exists /\ row'.status # row.status) =>
          \/ <<row.status, row'.status>> \in
                {<<PENDING, PROCESSING>>, <<PROCESSING, COMPLETED>>, <<PROCESSING, FAILED>>}
          \/ /\ row.status \in {COMPLETED, FAILED}
             /\ row'.status = PROCESSING
             /\ \E r \in Runs : run[r].pc = "set_processing" /\ run'[r].pc = "p_init"
      ]_vars

-----------------------------------------------------------------------------
(* C2 *)

\* C2: whenever the Document is COMPLETED, the add of its run was written:
\* the collection holds every chunk of that run with its embedding.
C2_CompletedImpliesStored ==
    (row.exists /\ row.status = COMPLETED) =>
        \E r \in Runs :
            /\ run[r].addAck = "ok"
            /\ coll.exists
            /\ FullChunkSet(DocId, run[r].chunks) \subseteq coll.items

-----------------------------------------------------------------------------
(* C3 *)

\* C3: once a stage of a run has raised, that stage is the last one the run
\* has begun, no stage was begun twice, the run is in or past its except
\* clause, and once past it the Document, if its row still exists, is FAILED.
C3_StageFailureHalts ==
    \A r \in Runs :
        run[r].raisedAt \in StagePcs =>
            /\ Len(run[r].trace) > 0
            /\ run[r].trace[Len(run[r].trace)] = StageOf(run[r].raisedAt)
            /\ \A i, j \in 1..Len(run[r].trace) :
                  run[r].trace[i] = run[r].trace[j] => i = j
            /\ run[r].pc \in {"set_failed", "fail_update", "cleanup", "return", "done"}
            /\ (PastHandler(run[r]) /\ row.exists) => row.status = FAILED

\* A run whose embedding stage raised has ended and left the Document FAILED.
C3_Witness ==
    /\ run[1].raisedAt = "embed"
    /\ run[1].pc = "done"
    /\ run[1].trace = <<"download", "extract", "summarize", "chunk", "embed">>
    /\ row.exists
    /\ row.status = FAILED

-----------------------------------------------------------------------------
(* C4 *)

\* C4: no two runs for the Document are inside their try block, where the
\* stages execute, at the same time.
C4_NoConcurrentRuns ==
    \A r1, r2 \in Runs :
        (r1 # r2) => ~(InTry(run[r1].pc) /\ InTry(run[r2].pc))

-----------------------------------------------------------------------------
(* C5 *)

\* C5: the step that removes the Document row leaves neither the stored
\* object nor the collection behind.
C5_DeleteLeavesNothing ==
    [][ (row.exists /\ ~row'.exists) => (~object' /\ ~coll'.exists) ]_vars

-----------------------------------------------------------------------------
(* C6 *)

\* C6: the collection doc_<id> exists only while its Document exists: no
\* step brings the collection into being while the Document has no row.
C6_CollectionOnlyWhileDocument ==
    [][ (~coll.exists /\ coll'.exists) => row.exists ]_vars

-----------------------------------------------------------------------------
(* C7 *)

\* C7: the collection holds no chunk or the complete chunk set of a run, and
\* after a run's embedder returned an empty result there is no collection.
C7_AllChunksOrNone ==
    /\ \/ coll.items = {}
       \/ \E r \in Runs :
             /\ run[r].chunks > 0
             /\ coll.items = FullChunkSet(DocId, run[r].chunks)
    /\ \A r \in Runs :
          (Began(run[r], "embed") /\ run[r].embs = 0) =>
              (~coll.exists /\ coll.items = {})

\* A run whose embedder returned nothing has ended; no collection exists.
C7_Witness ==
    /\ Began(run[1], "embed")
    /\ run[1].embs = 0
    /\ run[1].chunks = MaxChunks
    /\ run[1].pc = "done"
    /\ ~coll.exists

-----------------------------------------------------------------------------
(* C8 *)

\* C8 as claimed: the progress recorded for a run never decreases, and
\* neither does the value the endpoint returns while it reports PROCESSING.
C8_ProgressNeverDecreases ==
    [][ /\ \A r \in Runs :
              (HasProgress(meta[r]) /\ HasProgress(meta'[r])) =>
                  meta'[r].current_progress >= meta[r].current_progress
        /\ (statusResp.db_status = PROCESSING /\ statusResp'.db_status = PROCESSING) =>
              statusResp'.current_progress >= statusResp.current_progress
      ]_vars

\* C8, amended: the recorded progress and the value the endpoint returns
\* are integers in [0,100], and while the Document is PROCESSING the
\* progress read from the record of its run never decreases.
C8_ProgressMonotoneWhileProcessing ==
    [][ /\ \A r \in Runs : MetaProgress(meta'[r]) \in 0..100
        /\ statusResp'.current_progress \in 0..100
        /\ (row.exists /\ row.status = PROCESSING) =>
              \A r \in Runs : MetaProgress(meta'[r]) >= MetaProgress(meta[r])
      ]_vars

\* The endpoint has reported PROCESSING at 95 percent.
C8_Witness ==
    /\ row.exists
    /\ row.status = PROCESSING
    /\ meta[1].state = "PROGRESS"
    /\ meta[1].current_progress = 95
    /\ statusResp = [db_status |-> PROCESSING, current_progress |-> 90]

-----------------------------------------------------------------------------
(* C9 *)

-----------------------------------------------------------------------------
(* C10 *)

\* C10: a run that ended, in which no stage raised and a progress update was
\* lost or raised, has begun all seven stages and left the Document, if its
\* row still exists, COMPLETED, as it does when every update succeeds.
C10_UpdateFailureHarmless ==
    \A r \in Runs :
        (run[r].pc = "done" /\ run[r].faults > 0
            /\ run[r].raisedAt \notin StagePcs /\ row.exists) =>
            (run[r].trace = Stages /\ row.status = COMPLETED)

-----------------------------------------------------------------------------
(* C11 *)

\* The run has committed PROCESSING: it reached the "Initializing" update.
CommittedProcessing(rr) ==
    \/ rr.raisedAt \in ProgressPcs \cup StagePcs
    \/ Len(rr.trace) > 0

\* C11: a run that committed PROCESSING and has ended let no exception out of
\* the task and left the Document, if its row still exists, COMPLETED or
\* FAILED.
C11_RunLeavesTerminal ==
    \A r \in Runs :
        (run[r].pc = "done" /\ CommittedProcessing(run[r]) /\ row.exists) =>
            (row.status \in {COMPLETED, FAILED} /\ ~run[r].escaped)

-----------------------------------------------------------------------------
(* C12 *)

\* C12: after a run in which a stage raised has ended with the Document
\* FAILED, the task record the progress endpoint reads still carries the
\* error message.
C12_ErrorRetained ==
    \A r \in Runs :
        (run[r].pc = "done" /\ run[r].raisedAt \in StagePcs
            /\ row.exists /\ row.status = FAILED) =>
            (meta[r].isDict /\ "exc" \in meta[r].keys)

-----------------------------------------------------------------------------
(* C13 *)

\* C13: once a run has left its finally clause, on whatever path, the
\* temporary file does not exist.
C13_TempFileRemoved ==
    \A r \in Runs : run[r].pc \in {"return", "done"} => ~run[r].temp

\* A run that wrote the temporary file and failed in the extract stage has
\* ended without it.
C13_Witness ==
    /\ run[1].pc = "done"
    /\ run[1].raisedAt = "extract"
    /\ run[1].trace = <<"download", "extract">>
    /\ ~run[1].temp

-----------------------------------------------------------------------------
(* C14 *)

\* C14: a request that read the status PENDING, PROCESSING or FAILED is
\* answered 409 "not processed" and has called no embedding, search, rerank
\* or generation service.
C14_NotCompletedRejected ==
    q.status \in {PENDING, PROCESSING, FAILED} =>
        /\ query = "respond"
        /\ q.resp = HttpError(409, "not_processed")
        /\ q.calls = {}

\* A request for a PROCESSING Document is being answered 409.
C14_Witness ==
    /\ query = "respond"
    /\ q.status = PROCESSING
    /\ q.resp.code = 409
    /\ q.calls = {}

-----------------------------------------------------------------------------
(* C15 *)

\* C15: a request whose vector search, or whose reranking, returned an empty
\* list is answered 404 "no relevant content" and has not called the
\* generation service.
C15_NoCandidatesNoGeneration ==
    (\/ "search" \in q.calls /\ Len(q.cands) = 0
     \/ "rerank" \in q.calls /\ Len(q.passages) = 0) =>
        /\ query = "respond"
        /\ q.resp = HttpError(404, "no_relevant_content")
        /\ "generate" \notin q.calls

\* A request for a COMPLETED Document whose search found nothing is being
\* answered 404.
C15_Witness ==
    /\ query = "respond"
    /\ q.status = COMPLETED
    /\ "search" \in q.calls
    /\ q.cands = <<>>
    /\ q.resp.code = 404
    /\ "generate" \notin q.calls

-----------------------------------------------------------------------------
(* C16 *)

\* C16: no step of a query_document request changes the Document row, the
\* collection or the stored object.
C16_QueryChangesNothing ==
    [][ (query' # query) => (row' = row /\ coll' = coll /\ object' = object) ]_vars

-----------------------------------------------------------------------------
(* C17 *)

RECURSIVE Ids(_)
Ids(list) == IF list = <<>> THEN {} ELSE {Head(list).id} \cup Ids(Tail(list))

\* A success: a non-empty answer with exactly the passages placed in the
\* prompt, 1 to 5 of them, drawn from at most 10 candidates.
IsSuccess(rq) ==
    /\ rq.resp.code = 200
    /\ rq.resp.llm_answer # ""
    /\ rq.resp.retrieved_chunks = rq.passages
    /\ rq.prompt = ContextChunks(rq.resp.retrieved_chunks)
    /\ Len(rq.resp.retrieved_chunks) \in 1..5
    /\ Ids(rq.resp.retrieved_chunks) \subseteq Ids(rq.cands)
    /\ Len(rq.cands) <= 10

\* An error with one of the given reasons, carrying no answer and no passage.
IsError(rq, reasons) ==
    /\ rq.resp.code \in {404, 409, 500}
    /\ rq.resp.detail \in reasons
    /\ rq.resp.llm_answer = ""
    /\ rq.resp.retrieved_chunks = <<>>

\* C17 as claimed, a request that names no Document set aside: a request
\* for a Document ends in an error whose reason is not processed yet, no
\* relevant content or generation unavailable, or in a success.
C17_QueryOutcomes ==
    (query = "respond" /\ q.resp.detail # "not_found") =>
        \/ IsError(q, {"not_processed", "no_relevant_content", "generation_unavailable"})
        \/ IsSuccess(q)

\* C17, amended: a request ends in an error whose reason is one of Document
\* not found, not processed yet, vector store unavailable, query embedding
\* failed, no relevant content and generation unavailable, or in a success;
\* and at no time does the response hold an answer without passages or
\* passages without an answer.
C17_QueryOutcomesAll ==
    /\ query = "respond" =>
          \/ IsError(q, {"not_found", "not_processed", "store_unavailable",
                         "embedding_failed", "no_relevant_content",
                         "generation_unavailable"})
          \/ IsSuccess(q)
    /\ (q.resp.llm_answer = "") <=> (q.resp.retrieved_chunks = <<>>)

\* A success over a long text: 5 passages out of 10 candidates.
C17_Witness ==
    /\ query = "respond"
    /\ q.resp.code = 200
    /\ Len(q.resp.retrieved_chunks) = 5
    /\ Len(q.cands) = 10
    /\ Cardinality(coll.items) > 10

-----------------------------------------------------------------------------
(* C18 *)

\* C18: every recursive call of generate_summary receives a text of strictly
\* fewer tokens than the text of its caller.
C18_RecursionShrinks ==
    [][ gs'.depth > gs.depth => count_tokens(gs'.text) < count_tokens(gs.text) ]_vars

-----------------------------------------------------------------------------
(* C19 *)

\* C19: for a text of at most max_input_tokens minus the largest template
\* overhead, generate_summary splits nothing and recurses nowhere, and when it
\* has returned it has issued one generation call, the direct one, and
\* returned its reply.
C19_DirectPath ==
    count_tokens(gs.input) <=
        max_input_tokens - Max(base_prompt_overhead_direct,
                               Max(base_prompt_overhead_section,
                                   base_prompt_overhead_reduce)) =>
        /\ gs.pc \in {"idle", "start", "done"}
        /\ gs.chunks = <<>>
        /\ gs.levels = <<>>
        /\ gs.depth = 0
        /\ gs.pc = "done" =>
              /\ gs.calls = 1
              /\ gs.last.kind = "direct"
              /\ gs.returned = gs.last.reply
              /\ gs.result = IF gs.last.reply = None THEN "none" ELSE "text"

\* A text of exactly the usable budget was summarized by one direct call.
C19_Witness ==
    /\ gs.pc = "done"
    /\ count_tokens(gs.input) = effective_content_limit_for_splitting
    /\ gs.calls = 1
    /\ gs.last.kind = "direct"
    /\ gs.returned > 0

-----------------------------------------------------------------------------
(* C20 *)

RECURSIVE NoRepeat(_)
NoRepeat(list) ==
    \/ list = <<>>
    \/ /\ \A k \in 2..Len(list) : list[k] # Head(list)
       /\ NoRepeat(Tail(list))

\* C20: on every finished level the section calls number the chunks minus
\* the skipped chunks; within the loop every chunk passed was either skipped
\* or asked for once, and none is asked for or skipped twice.
C20_SectionCalls ==
    /\ \A k \in 1..Len(gs.levels) :
          gs.levels[k].calls = gs.levels[k].chunks - gs.levels[k].skipped
    /\ gs.pc = "loop" =>
          /\ Len(gs.asked) + Len(gs.skipped) = gs.i - 1
          /\ NoRepeat(gs.asked \o gs.skipped)

\* A level of two chunks, one skipped for its prompt's size and one whose
\* call failed, has ended with one section call and no summary.
C20_Witness ==
    /\ gs.pc = "done"
    /\ Len(gs.levels) = 1
    /\ gs.levels[1] = [chunks |-> 2, calls |-> 1, skipped |-> 1]
    /\ gs.calls = 1
    /\ gs.last.kind = "section"
    /\ ~Truthy(gs.last.reply)
    /\ gs.result = "none"

-----------------------------------------------------------------------------
\* C21: the output-token cap of the reduce generation call equals
\* min(floor(1.3 * words_per_chunk_summary * number of chunks), 3000): it is
\* never above 3000, never above 1.3 times the words, and when it is below
\* 3000 the next integer is above 1.3 times the words.
C21_ReduceCap ==
    gs.last.kind = "reduce" =>
        LET cap == gs.last.max_tokens
            words == gs.words * Len(gs.chunks)
        IN  /\ cap <= 3000
            /\ 10 * cap <= 13 * words
            /\ cap < 3000 => 13 * words < 10 * (cap + 1)
            /\ cap = 3000 => 13 * words >= 10 * 3000

\* C21 witness: a reduce call over three chunks with 1000 words a chunk is
\* capped at 3000, under the 3900 tokens the words stand for.
C21_Witness ==
    /\ gs.pc = "done"
    /\ gs.last.kind = "reduce"
    /\ Len(gs.chunks) = 3
    /\ gs.words = 1000
    /\ gs.last.max_tokens = 3000

-----------------------------------------------------------------------------
\* C22: when every section-summary generation call fails, generate_summary
\* returns no summary, and a run whose call returned no summary is not
\* aborted by it: nothing is raised at the summarize stage and the
\* Document's summary stays unset.
C22_NoSummaryNotFatal ==
    /\ (gs.pc = "done" /\ gs.levels # <<>> /\ gs.summaries = <<>>) => gs.result = "none"
    /\ (gs.pc = "returned" /\ gs.result = "none") =>
           /\ \A r \in Runs : run[r].raisedAt # "summarize" /\ run[r].pc # "summarize"
           /\ row.exists => ~row.summary

\* C22 witness: a run whose section-summary calls all failed has gone through
\* every stage and left the Document COMPLETED with its chunks stored and
\* no summary.
C22_Witness ==
    /\ gs.pc = "returned"
    /\ gs.result = "none"
    /\ gs.last.kind = "section"
    /\ run[1].pc = "done"
    /\ run[1].raisedAt = "none"
    /\ run[1].trace = Stages
    /\ row.exists /\ row.status = COMPLETED /\ ~row.summary
    /\ coll.exists /\ coll.items # {}

-----------------------------------------------------------------------------
\* C23: add_chunks_to_collection called with ids, texts and embeddings whose
\* lengths are not all equal leaves the collection as it was: no item of the
\* call is written.
C23_MismatchRejected ==
    (svc.op = "add" /\ ~(svc.ids = svc.texts /\ svc.texts = svc.embeddings)) =>
        coll = svc.before

\* C23 witness: a call with two ids, two texts and one embedding on an
\* existing empty collection of a working vector store has left it empty.
C23_Witness ==
    /\ svc.op = "add"
    /\ svc.ids = 2 /\ svc.texts = 2 /\ svc.embeddings = 1
    /\ svc.storeOk
    /\ svc.before.exists /\ svc.before.items = {}
    /\ coll.exists /\ coll.items = {}

-----------------------------------------------------------------------------
\* C24: delete_collection is idempotent: with the vector store working,
\* deleting a collection that does not exist leaves the vector store as it
\* was and is not reported as an error.
C24_DeleteIdempotent ==
    (svc.op = "delete" /\ svc.storeOk /\ ~svc.before.exists) =>
        (coll = svc.before /\ svc.ret = TRUE)

-----------------------------------------------------------------------------
\* C25: for every candidate list and every N, rerank returns at most N
\* candidates, and the relevance scores of those it returns are in
\* non-increasing order.
C25_RerankTopNSorted ==
    svc.op = "rerank" =>
        /\ Len(svc.ret) <= svc.top_n
        /\ \A i \in 1..Len(svc.ret) : \A j \in 1..Len(svc.ret) :
              (i < j /\ svc.ret[i].scored /\ svc.ret[j].scored) =>
                  svc.ret[i].relevance_score >= svc.ret[j].relevance_score

\* C25 witness: of three candidates the two best scored are returned, best
\* first, and the best was not the first candidate.
C25_Witness ==
    /\ svc.op = "rerank"
    /\ svc.modelOk
    /\ Len(svc.documents) = 3
    /\ svc.top_n = 2
    /\ Len(svc.ret) = 2
    /\ svc.ret[1].scored /\ svc.ret[2].scored
    /\ svc.ret[1].relevance_score > svc.ret[2].relevance_score
    /\ svc.ret[1].id # svc.documents[1].id

-----------------------------------------------------------------------------
\* C26: when the reranking model is unavailable, rerank returns exactly the
\* first min(N, number of candidates) candidates in their input order, with
\* no relevance score attached.
C26_RerankFallback ==
    (svc.op = "rerank" /\ ~svc.modelOk) =>
        /\ Len(svc.ret) = Min(svc.top_n, Len(svc.documents))
        /\ \A i \in 1..Len(svc.ret) : svc.ret[i] = svc.documents[i] /\ ~svc.ret[i].scored

\* C26 witness: without the model the first two of three candidates come
\* back unscored.
C26_Witness ==
    /\ svc.op = "rerank"
    /\ ~svc.modelOk
    /\ Len(svc.documents) = 3
    /\ svc.top_n = 2
    /\ Len(svc.ret) = 2
    /\ svc.ret[2] = svc.documents[2]
    /\ ~svc.ret[2].scored

-----------------------------------------------------------------------------
-----------------------------------------------------------------------------
\* C28: a processing_status request that finds the Document COMPLETED or
\* FAILED answers with that status, with progress 100 exactly when it is
\* COMPLETED, from the row alone: it does not go to the task record,
\* whatever the row's task id and the record are.
C28_TerminalFromRow ==
    [][ (poll = "idle" /\ row.exists /\ row.status \in {COMPLETED, FAILED}) =>
            /\ poll' = "idle"
            /\ statusResp' # statusResp =>
                   /\ statusResp'.db_status = row.status
                   /\ statusResp'.current_progress = 100 <=> row.status = COMPLETED
                   /\ statusResp'.current_progress \in {0, 100} ]_vars

\* C28 witness: a COMPLETED Document whose row carries no task id has been
\* answered COMPLETED with progress 100.
C28_Witness ==
    /\ row.exists /\ row.status = COMPLETED /\ ~row.task
    /\ poll = "idle"
    /\ statusResp = [db_status |-> COMPLETED, current_progress |-> 100]

-----------------------------------------------------------------------------
\* C29: an upload whose file is not of the supported format (its bytes are
\* no PDF that can be opened) is rejected before any pipeline work: no
\* object is stored, no Document row is created and no task is dispatched.
C29_UnsupportedRejected ==
    file.kind = "corrupt" =>
        (~object /\ ~row.exists /\ \A r \in Runs : run[r].pc = "idle")

-----------------------------------------------------------------------------
\* C30: a run whose extracted text is empty or whitespace-only, or whose
\* source cannot be opened, ends with the Document FAILED, with no stage
\* after extract executed, and with the reason of the extraction failure
\* on record.
C30_ExtractionFailure ==
    \A r \in Runs :
        (/\ run[r].pc = "done"
         /\ file.kind \in {"corrupt", "blank"}
         /\ Began(run[r], "extract")
         /\ row.exists) =>
            /\ row.status = FAILED
            /\ run[r].trace = <<"download", "extract">>
            /\ meta[r].isDict /\ "exc" \in meta[r].keys

-----------------------------------------------------------------------------
\* C31: whenever the embedding generator returns an empty result its caller
\* aborts: the run raises at the embed stage, never begins the store stage
\* and writes nothing, and leaves the Document (while its row exists)
\* FAILED; a query ends with an error and calls neither the vector search
\* nor the reranker nor the generation service.
C31_EmptyEmbeddingAborts ==
    /\ \A r \in Runs :
          (Began(run[r], "embed") /\ run[r].embs = 0) =>
              /\ run[r].raisedAt = "embed"
              /\ ~Began(run[r], "store")
              /\ run[r].addAck = "none"
              /\ (run[r].pc = "done" /\ row.exists) => row.status = FAILED
    /\ ("embed" \in q.calls /\ q.embs = 0) =>
          /\ query = "respond"
          /\ q.resp = HttpError(500, "embedding_failed")
          /\ q.calls \cap {"search", "rerank", "generate"} = {}

\* C31 witness: a query of a COMPLETED Document whose chunks are stored got
\* no embedding for its text and is answered 500 with nothing else called.
C31_Witness ==
    /\ query = "respond"
    /\ q.status = COMPLETED
    /\ q.calls = {"embed"}
    /\ q.embs = 0
    /\ q.resp.code = 500
    /\ coll.exists /\ coll.items # {}

-----------------------------------------------------------------------------
\* C32: the handlers working for Document d touch no collection but doc_<d>;
\* every collection of the store is doc_<d> for one Document d, and each of
\* its chunks is stored under doc_<d>_chunk_<n> with no n twice and with d
\* as its parent; what a query for d gets back are chunks of d only.
C32_StoreShape ==
    /\ \A name \in DOMAIN chroma :
          \E d \in DocumentIds :
             /\ name = collection_name(d)
             /\ \A it \in chroma[name].items :
                   /\ it.document_id = d
                   /\ \E n \in 0..(MaxChunks - 1) : it.id = ChunkId(d, n)
             /\ \A a \in chroma[name].items : \A b \in chroma[name].items :
                   a.id = b.id => a = b
    /\ svc.op = "query" =>
          \A i \in 1..Len(svc.ret) :
             /\ svc.ret[i].metadata = svc.document_id
             /\ \E n \in 0..(MaxChunks - 1) : svc.ret[i].id = ChunkId(svc.document_id, n)

C32_Naming ==
    [][/\ C32_StoreShape'
       /\ \A d \in DocumentIds :
             CollectionAt(chroma', collection_name(d)) # CollectionAt(chroma, collection_name(d))
                => svc'.document_id = d]_vars

\* C32 witness: the collections of Documents 1 and 11 both hold chunks, and a
\* query for Document 1 got back ten chunks, the first being doc_1_chunk_10.
C32_Witness ==
    /\ collection_name(DocId) \in DOMAIN chroma
    /\ collection_name(11) \in DOMAIN chroma
    /\ Cardinality(chroma[collection_name(DocId)].items) = MaxChunks
    /\ chroma[collection_name(11)].items # {}
    /\ svc.op = "query"
    /\ svc.document_id = DocId
    /\ Len(svc.ret) = INITIAL_CHROMA_RESULTS
    /\ svc.ret[1].id = ChunkId(DocId, MaxChunks - 1)

-----------------------------------------------------------------------------
\* C33: every prompt generate_summary has sent to the generation service,
\* direct, per section or reduce, counts at most max_input_tokens tokens.
C33_PromptsWithinInput ==
    gs.calls > 0 => gs.last.prompt_tokens <= max_input_tokens

-----------------------------------------------------------------------------
\* C34 as stated: every section-summary call is capped at
\* words_per_chunk_summary tokens.
C34_SectionCapIsWords ==
    (gs.calls > 0 /\ gs.last.kind = "section") => gs.last.max_tokens = gs.words

\* C34 amended: every section-summary call is capped at
\* int(words_per_chunk_summary * 1.3) tokens, the words taken for tokens at
\* the ratio 1.3 used for the direct and the reduce call.
C34_SectionCapConverted ==
    (gs.calls > 0 /\ gs.last.kind = "section") =>
        gs.last.max_tokens = (gs.words * 13) \div 10

\* C34 witness: a section call with the default 100 words was capped at 130
\* tokens.
C34_Witness ==
    /\ gs.calls > 0
    /\ gs.last.kind = "section"
    /\ gs.words = words_per_chunk_summary
    /\ gs.last.max_tokens = 130

-----------------------------------------------------------------------------
\* C35: what the reduce path returns is the generated text cut after its last
\* full stop: a prefix of the generated text that leaves out only what
\* follows the last full stop and, unless empty, ends with a full stop.
C35_CutAfterTerminator ==
    svc.op = "trim" =>
        /\ IsPrefix(svc.ret, svc.final_summary)
        /\ svc.ret # <<>> => svc.ret[Len(svc.ret)] = "."
        /\ LastIndexOf(svc.final_summary, ".") > 0 =>
              svc.ret = SubSeq(svc.final_summary, 1, LastIndexOf(svc.final_summary, "."))

-----------------------------------------------------------------------------
\* C36: whatever the generation calls do, a finished call of generate_summary
\* has returned a summary or no summary and has not raised, and a run whose
\* call ended without a summary is not stopped at the summarize stage.
C36_SummaryNeverRaises ==
    /\ gs.pc \in {"done", "returned"} => gs.result \in {"text", "none"}
    /\ (gs.pc = "returned" /\ gs.result # "text") =>
          \A r \in Runs : run[r].raisedAt # "summarize"

-----------------------------------------------------------------------------
\* C37: an upload that failed after its object was stored has left no row
\* and no dispatched task and has removed the object; and while no deletion
\* of the Document is under way, a row that exists has its stored object.
C37_FailedUploadLeavesNothing ==
    /\ (upload = "failed" /\ file # NoFile) =>
          /\ ~row.exists
          /\ \A r \in Runs : run[r].pc = "idle"
          /\ ~object
    /\ (row.exists /\ del = "idle") => object

-----------------------------------------------------------------------------
\* C38: a query, delete or status request of a user who does not own the
\* Document is answered not found, gets no further than the lookup, and the
\* step that serves it leaves the row, the collection and the stored object
\* as they were and returns no status body and no answer.
C38_NotOwnerNotFound ==
    [][/\ \A h \in {"query", "del", "poll"} :
             (caller'[h].user # 0 /\ caller'[h].user # UploaderId) =>
                 caller'[h].outcome = "not_found"
       /\ del' # "idle" => caller'.del.user = UploaderId
       /\ poll' # "idle" => caller'.poll.user = UploaderId
       /\ (query' # "idle" /\ caller'.query.user # UploaderId) =>
             /\ query' = "respond"
             /\ q'.resp = HttpError(404, "not_found")
             /\ q'.status = "none" /\ q'.calls = {} /\ q'.passages = <<>>
       /\ \A h \in {"query", "del", "poll"} :
             (caller'[h] # caller[h] /\ caller'[h].user # UploaderId) =>
                 UNCHANGED <<row, coll, object, statusResp, meta, run>>]_vars

\* C38 witness: with the Document COMPLETED and its chunks stored, the other
\* user has asked for a query, a deletion and the status; each was answered
\* not found, the query's 404 is about to be sent, and row, object and
\* collection are all still there.
C38_Witness ==
    /\ caller.query = [user |-> OtherUserId, outcome |-> "not_found"]
    /\ caller.del = [user |-> OtherUserId, outcome |-> "not_found"]
    /\ caller.poll = [user |-> OtherUserId, outcome |-> "not_found"]
    /\ query = "respond" /\ q.resp.code = 404
    /\ del = "idle" /\ poll = "idle"
    /\ row.exists /\ row.status = COMPLETED /\ row.owner = UploaderId
    /\ object
    /\ coll.exists /\ Cardinality(coll.items) = MaxChunks
    /\ statusResp.db_status = "none"

-----------------------------------------------------------------------------
\* C39: for every accepted title and file name, the key the run reads from
\* the stored locator and the key the deletion reads from it are both the
\* key the object was uploaded under.
C39_KeysAgree ==
    svc.op = "keys" =>
        /\ svc.run_key = svc.object_name
        /\ svc.delete_key = svc.object_name

====
